---- MODULE Spec2Model ----
(***************************************************************************)
(* State-machine models of the stateful teaching classes of the course:    *)
(*   LRUCache                 (15_Memory_Management.js)                    *)
(*   CircularBuffer           (arrays module and memory guide)             *)
(*   EventEmitter / EventSystem / MemoryEfficientEmitter                   *)
(*   TestRunner, Assertions   (testing module)                             *)
(*   RateLimiter, AsyncQueue, RetryMechanism, createCancellablePromise     *)
(*                            (01_JS_Introduction.js)                      *)
(*   createRateLimiter        (16_Security.js)                             *)
(*   circuitBreaker, retryOperation   (08_Error_Handling.js)               *)
(*   debounce / throttle      (events, DOM, performance, functions)        *)
(* Each class is independent of the others, so each has a specification of *)
(* its own (SpecLRU, SpecCB, SpecEmit, SpecTR, ...) over its own variables; *)
(* the variables of the other classes stay at their constructed values.    *)
(***************************************************************************)
EXTENDS Integers, Sequences, FiniteSets, TLC

VARIABLES
    \* ---- LRUCache ----
    capacity,       \* this.capacity
    cache,          \* this.cache: a Map, as the sequence of its entries in insertion order
    lruLast,        \* the last call made on the cache and what it returned
    refVal,         \* reference LRU cache: key -> value or Absent
    refUsed,        \* reference LRU cache: key -> time of its latest successful get or put
    refRet,         \* reference LRU cache: what the last call returns
    clock,          \* number of calls made so far
    \* ---- CircularBuffer ----
    cb,             \* the arrays module's CircularBuffer: size, buffer, writePtr, readPtr, count
    mb,             \* the memory guide's CircularBuffer: size, buffer, writePtr, readPtr
    cbOp,           \* the last call made on both buffers: "new", "write" or "read"
    cbRet,          \* what the last read of cb returned
    mbRet,          \* what the last read of mb returned
    pending,        \* the values written and neither read from cb nor overwritten, oldest first
    overflowed,     \* some write was made while cb.count = cb.size
    underflowed,    \* some read was made while cb.count = 0
    \* ---- EventEmitter / EventSystem / MemoryEfficientEmitter ----
    emitter,        \* the class of the emitter object under study
    eeEvents,       \* EventEmitter.events: Map event -> array of callbacks
    esListeners,    \* EventSystem.listeners: Map event -> Set of {callback, options} objects
    meEvents,       \* MemoryEfficientEmitter.events: Map event -> Set of callbacks
    onCalls,        \* EventEmitter: the on(event, callback) calls made, in order
    meUnsubs,       \* MemoryEfficientEmitter: the unsubscribe functions on() has returned
    emLast,         \* the last call made on the emitter; for an emit, what it did
    \* ---- TestRunner ----
    tests,          \* this.tests: a Map name -> testFn, as its entries in insertion order
    beforeEach,     \* this.beforeEach: NoFn (null) or a function
    afterEach,      \* this.afterEach: NoFn (null) or a function
    registered,     \* the names passed to test() so far
    trPc,           \* runTests: "idle" (not called), "running", "done" (resolved), "rejected"
    trIdx,          \* runTests: the position of the for...of loop in this.tests
    trStep,         \* runTests: the statement of the try block to execute next
    inflight,       \* the calls of hooks and test bodies that have started and not settled
    results,        \* the results object of runTests
    trLog,          \* the starts and settlements of hooks and test bodies, in order
    \* ---- time ----
    now,            \* Date.now(), the clock that setTimeout timers are due against
    \* ---- RateLimiter (01_JS_Introduction.js) ----
    rlMax,          \* this.maxRequests
    rlWindow,       \* this.timeWindow
    rlRequests,     \* this.requests: array of timestamps
    rlWaiting,      \* the throttle calls suspended on their timer: id, now, due
    rlStarts,       \* the times at which fn() was invoked, in order
    \* ---- APISecurityPractices.createRateLimiter ----
    slLimit,        \* limit
    slInterval,     \* interval
    slRequests,     \* requests: Map clientId -> array of timestamps
    slGrants,       \* the calls that returned true: client and time, in order
    slLast,         \* the last call: client, time and what it returned
    \* ---- recoveryStrategies.circuitBreaker ----
    brThreshold,    \* threshold
    brFailures,     \* failures
    brLastFailure,  \* lastFailure: NoTime (null) or a timestamp
    brInflight,     \* number of operation() calls awaited and not settled
    brLast,         \* the last call of the wrapper: what its synchronous part did
    brSteps,        \* number of steps taken (calls, settlements, clock advances)
    \* ---- retry loops ----
    rtImpl,         \* which of the three retry functions runs
    rtMax,          \* maxAttempts / attempts
    rtDelay,        \* delay
    rtPc,           \* "call", "operation" (awaiting it), "waiting" (on the timer), "resolved", "rejected"
    rtCounter,      \* the loop variable (attempt, or i)
    rtTimer,        \* when the pending setTimeout is due, NoTime when none is pending
    rtLog,          \* attempts, their outcomes and the waits, in order
    rtResult,       \* what the returned promise settled with
    \* ---- debounce ----
    dbDelay,        \* delay
    dbTimeoutId,    \* timeoutId: Undefined or the id of the last timer armed
    dbTimers,       \* the pending timers: id, due, args
    dbCalls,        \* the calls of the debounced function: time and args, in order
    dbInvoked,      \* the invocations of fn: time and args, in order
    \* ---- throttle ----
    thLimit,        \* limit
    thFlag,         \* per implementation: inThrottle / waiting
    thTimer,        \* per implementation: when the pending setTimeout is due, NoTime when none
    thInvoked,      \* per implementation: the invocations of fn: time and args, in order
    thLast,         \* the last call of the throttled functions: time, args, flag before
    \* ---- createCancellablePromise ----
    cpPromise,      \* per wrapper: the state of the promise passed in
    cpCancelled,    \* per wrapper: isCancelled
    cpReaction,     \* per wrapper: the then-callback: "waiting", "queued" or "ran"
    cpWrapped,      \* per wrapper: the state of wrappedPromise
    cpSettles,      \* per wrapper: how many times resolve/reject of wrappedPromise was called
    cpSeen,         \* per wrapper: cancel() was called before the then-callback ran
    \* ---- Assertions ----
    asLog,          \* the assertThrows / assertRejects calls made and how each ended
    \* ---- AsyncQueue ----
    aqQueue,        \* this.queue: the ids of the tasks waiting
    aqProcessing,   \* this.processing
    aqLoops,        \* the process() loops that are active: the task each one awaits
    aqStarted,      \* the ids of the tasks started, in order
    aqEnqueued,     \* number of enqueue calls made (task ids are 1..aqEnqueued)
    aqSettled,      \* the tasks settled, in order: outcome and what enqueue's promise got
    \* ---- asyncPool ----
    apLimit,        \* poolLimit
    apCount,        \* items.length
    apIdx,          \* number of items for which iteratorFn has been called
    apState,        \* per item: "unstarted", "pending", "fulfilled" or "rejected"
    apPool,         \* the Set pool: the items whose promises it holds
    apPc,           \* "call", "await" (Promise.race), "all" (Promise.all), "fulfilled", "rejected"
    \* ---- createObjectPool ----
    opImpl,         \* the module the pool comes from: "memory" or "performance"
    opPool,         \* the array pool: the inUse flag of each object
    opHeld,         \* the objects acquired and not released since
    opLast,         \* the last call made on the pool, and the flags before it
    \* ---- DependencyManager ----
    dmModules,      \* the keys of this.modules
    dmDeps,         \* this.dependencies: Map name -> array of names
    dmPc,           \* require: "idle", "running", "returned", "notfound", "overflow"
    dmRoot,         \* the name given to the outermost require
    dmStack,        \* the active calls of require: name and position in dependencies.map
    dmLog,          \* the implementations invoked by the outermost require, in order
    dmMissing       \* the name in the message of the 'not found' error

lruVars == <<capacity, cache, lruLast, refVal, refUsed, refRet, clock>>

cbVars == <<cb, mb, cbOp, cbRet, mbRet, pending, overflowed, underflowed>>

emVars == <<emitter, eeEvents, esListeners, meEvents, onCalls, meUnsubs, emLast>>

trVars == <<tests, beforeEach, afterEach, registered, trPc, trIdx, trStep, inflight,
            results, trLog>>

rlVars == <<rlMax, rlWindow, rlRequests, rlWaiting, rlStarts>>

slVars == <<slLimit, slInterval, slRequests, slGrants, slLast>>

brVars == <<brThreshold, brFailures, brLastFailure, brInflight, brLast, brSteps>>

rtVars == <<rtImpl, rtMax, rtDelay, rtPc, rtCounter, rtTimer, rtLog, rtResult>>

dbVars == <<dbDelay, dbTimeoutId, dbTimers, dbCalls, dbInvoked>>

thVars == <<thLimit, thFlag, thTimer, thInvoked, thLast>>

cpVars == <<cpPromise, cpCancelled, cpReaction, cpWrapped, cpSettles, cpSeen>>

asVars == <<asLog>>

aqVars == <<aqQueue, aqProcessing, aqLoops, aqStarted, aqEnqueued, aqSettled>>

\* the classes that read the clock or arm timers
timedVars == <<now, rlVars, slVars, brVars, rtVars, dbVars, thVars>>

apVars == <<apLimit, apCount, apIdx, apState, apPool, apPc>>

opVars == <<opImpl, opPool, opHeld, opLast>>

dmVars == <<dmModules, dmDeps, dmPc, dmRoot, dmStack, dmLog, dmMissing>>

untimedVars == <<cpVars, asVars, aqVars, apVars, opVars, dmVars>>

vars == <<lruVars, cbVars, emVars, trVars, timedVars, untimedVars>>

\* what the calls on one class leave unchanged: the variables of all the others
exceptLRU == <<cbVars, emVars, trVars, timedVars, untimedVars>>
exceptCB == <<lruVars, emVars, trVars, timedVars, untimedVars>>
exceptEmit == <<lruVars, cbVars, trVars, timedVars, untimedVars>>
exceptTR == <<lruVars, cbVars, emVars, timedVars, untimedVars>>
untimed == <<lruVars, cbVars, emVars, trVars, untimedVars>>
exceptRL == <<untimed, slVars, brVars, rtVars, dbVars, thVars>>
exceptSL == <<untimed, rlVars, brVars, rtVars, dbVars, thVars>>
exceptBR == <<untimed, rlVars, slVars, rtVars, dbVars, thVars>>
exceptRT == <<untimed, rlVars, slVars, brVars, dbVars, thVars>>
exceptDB == <<untimed, rlVars, slVars, brVars, rtVars, thVars>>
exceptTH == <<untimed, rlVars, slVars, brVars, rtVars, dbVars>>
exceptCP == <<lruVars, cbVars, emVars, trVars, timedVars, asVars, aqVars, apVars, opVars,
              dmVars>>
exceptAS == <<lruVars, cbVars, emVars, trVars, timedVars, cpVars, aqVars, apVars, opVars,
              dmVars>>
exceptAQ == <<lruVars, cbVars, emVars, trVars, timedVars, cpVars, asVars, apVars, opVars,
              dmVars>>
exceptAP == <<lruVars, cbVars, emVars, trVars, timedVars, cpVars, asVars, aqVars, opVars,
              dmVars>>
exceptOP == <<lruVars, cbVars, emVars, trVars, timedVars, cpVars, asVars, aqVars, apVars,
              dmVars>>
exceptDM == <<lruVars, cbVars, emVars, trVars, timedVars, cpVars, asVars, aqVars, apVars,
              opVars>>

\* ------------------------------------------------------------------ bounds
NumKeys == 3
NumVals == 2
MaxCapacity == 2
MaxCalls == 6
MaxSize == 3
MaxListeners == 3
MaxTests == 2

Keys == 1..NumKeys
Vals == 1..NumVals

\* ------------------------------------------------------------ JS Map
\* A Map is the sequence of its entries [key, value] in insertion order.
NoKey == 0
Miss == -1
Absent == 0
\* JS values that are not numbers of Vals, as numbers outside Vals
Undefined == -2
Null == -3

RECURSIVE SeqFilterKey(_, _)
\* the entries of m whose key is not k, in order
SeqFilterKey(m, k) ==
    IF m = <<>> THEN <<>>
    ELSE IF Head(m).key = k THEN SeqFilterKey(Tail(m), k)
         ELSE <<Head(m)>> \o SeqFilterKey(Tail(m), k)

MapHas(m, k) == \E i \in 1..Len(m) : m[i].key = k

MapGet(m, k) == m[CHOOSE i \in 1..Len(m) : m[i].key = k].value

MapDelete(m, k) == SeqFilterKey(m, k)

\* Map.prototype.set: an existing key keeps its place, a new key goes last
MapSet(m, k, v) ==
    IF MapHas(m, k)
    THEN [i \in 1..Len(m) |-> IF m[i].key = k THEN [key |-> k, value |-> v] ELSE m[i]]
    ELSE Append(m, [key |-> k, value |-> v])

\* this.cache.keys().next().value
MapFirstKey(m) == IF m = <<>> THEN NoKey ELSE m[1].key

MapKeys(m) == {m[i].key : i \in 1..Len(m)}

\* ------------------------------------------------------------ LRUCache
\* get(key) that returns the value without moving the key to the end
LRUGetNoRefresh(m, k) ==
    IF ~MapHas(m, k) THEN [ret |-> Miss, cache |-> m]
    ELSE [ret |-> MapGet(m, k), cache |-> m]

\* get(key): the value returned and the Map afterwards
LRUGet(m, k) ==
    IF ~MapHas(m, k) THEN [ret |-> Miss, cache |-> m]
    ELSE LET value == MapGet(m, k)
         IN [ret |-> value, cache |-> MapSet(MapDelete(m, k), k, value)]

\* the key put(key, value) evicts, NoKey when it evicts none
LRUVictim(m, cap, k) ==
    IF MapHas(m, k) THEN NoKey
    ELSE IF Len(m) >= cap THEN MapFirstKey(m)
    ELSE NoKey

\* put(key, value) that evicts only once the size exceeds the capacity
LRUPutLateEvict(m, cap, k, v) ==
    LET afterDelete ==
            IF MapHas(m, k) THEN MapDelete(m, k)
            ELSE IF Len(m) > cap THEN MapDelete(m, MapFirstKey(m))
            ELSE m
    IN MapSet(afterDelete, k, v)

\* put(key, value): the Map afterwards
LRUPut(m, cap, k, v) ==
    LET afterDelete ==
            IF MapHas(m, k) THEN MapDelete(m, k)
            ELSE IF Len(m) >= cap THEN MapDelete(m, MapFirstKey(m))
            ELSE m
    IN MapSet(afterDelete, k, v)

\* ---- the reference least-recently-used cache: contents and use times ----
RefPresent(rv) == {k \in Keys : rv[k] # Absent}

RefVictim(rv, ru, cap, k) ==
    IF rv[k] # Absent \/ Cardinality(RefPresent(rv)) < cap THEN NoKey
    ELSE CHOOSE x \in RefPresent(rv) : \A y \in RefPresent(rv) : ru[x] <= ru[y]

\* new LRUCache(capacity): an empty Map
LRUConstructed ==
    /\ cache = <<>>
    /\ lruLast = [op |-> "new", key |-> NoKey, value |-> Absent, ret |-> Undefined,
                  evicted |-> NoKey]
    /\ refVal = [k \in Keys |-> Absent]
    /\ refUsed = [k \in Keys |-> 0]
    /\ refRet = Undefined
    /\ clock = 0

\* new CircularBuffer(size) of both modules
CBConstructed(size) ==
    /\ cb = [size |-> size, buffer |-> [i \in 0..(size - 1) |-> Undefined],
             writePtr |-> 0, readPtr |-> 0, count |-> 0]
    /\ mb = [size |-> size, buffer |-> [i \in 0..(size - 1) |-> Undefined],
             writePtr |-> 0, readPtr |-> 0]
    /\ cbOp = "new"
    /\ cbRet = Undefined
    /\ mbRet = Undefined
    /\ pending = <<>>
    /\ overflowed = FALSE
    /\ underflowed = FALSE

\* ------------------------------------------------------------ emitters
Events == {"test", "other"}

\* The listener functions: two that return and one that throws when called.
Callbacks == {"spy", "spy2", "thrower"}

Throws(callback) == callback = "thrower"

NoCall == [op |-> "new", event |-> "", data |-> Undefined, calls |-> <<>>,
           outcome |-> "none", registered |-> <<>>, atCall |-> <<>>]

EmptyMap == [e \in {} |-> <<>>]

\* new EventEmitter() / new EventSystem() / new MemoryEfficientEmitter()
EmitterConstructed ==
    /\ eeEvents = EmptyMap
    /\ esListeners = EmptyMap
    /\ meEvents = EmptyMap
    /\ onCalls = <<>>
    /\ meUnsubs = {}
    /\ emLast = NoCall

\* ------------------------------------------------------------ TestRunner
NoFn == "null"

\* What a hook or a test function does when called and awaited: it completes
\* ("ok"), or throws or rejects with an Error ("error"), with a value that is not
\* an Error ("value"), or with null or undefined ("nullish").
Fns == {"ok", "error", "value", "nullish"}

TestNames == {"first", "second", "third"}

NoResults == [passed |-> 0, failed |-> 0, total |-> 0, failures |-> <<>>]

\* new TestRunner()
RunnerConstructed ==
    /\ tests = <<>>
    /\ beforeEach = NoFn
    /\ afterEach = NoFn
    /\ registered = {}
    /\ trPc = "idle"
    /\ trIdx = 0
    /\ trStep = "before"
    /\ inflight = {}
    /\ results = NoResults
    /\ trLog = <<>>

\* ------------------------------------------------------------ time and timers
\* null where a timestamp is expected, and "no timer pending"
NoTime == -1

\* ------------------------------------------------------------ RateLimiter
\* new RateLimiter(maxRequests, timeWindow)
RLConstructed(maxRequests, timeWindow) ==
    /\ rlMax = maxRequests
    /\ rlWindow = timeWindow
    /\ rlRequests = <<>>
    /\ rlWaiting = <<>>
    /\ rlStarts = <<>>

\* ------------------------------------------------------------ createRateLimiter
Clients == {"alice", "bob"}

\* createRateLimiter(limit, interval): const requests = new Map()
SLConstructed(limit, interval) ==
    /\ slLimit = limit
    /\ slInterval = interval
    /\ slRequests = EmptyMap
    /\ slGrants = <<>>
    /\ slLast = [op |-> "new", client |-> "", at |-> 0, ret |-> FALSE,
                 before |-> EmptyMap]

\* ------------------------------------------------------------ circuitBreaker
\* circuitBreaker(operation, threshold): let failures = 0; let lastFailure = null
BRConstructed(threshold) ==
    /\ brThreshold = threshold
    /\ brFailures = 0
    /\ brLastFailure = NoTime
    /\ brInflight = 0
    /\ brLast = [op |-> "new", at |-> 0, open |-> FALSE, reset |-> FALSE,
                 invoked |-> FALSE, failures |-> 0, lastFailure |-> NoTime,
                 inflight |-> 0, succeeded |-> FALSE]
    /\ brSteps = 0

\* ------------------------------------------------------------ retry loops
RetryImpls == {"RetryMechanism.retry", "ErrorPatterns.retryOperation", "retry"}

\* a call of the retry function: nothing has run yet
RTConstructed(impl, maxAttempts, delay) ==
    /\ rtImpl = impl
    /\ rtMax = maxAttempts
    /\ rtDelay = delay
    /\ rtPc = "call"
    /\ rtCounter = 0
    /\ rtTimer = NoTime
    /\ rtLog = <<>>
    /\ rtResult = [state |-> "pending", value |-> Undefined]

\* ------------------------------------------------------------ debounce
\* debounce(fn, delay): let timeoutId
DBConstructed(delay) ==
    /\ dbDelay = delay
    /\ dbTimeoutId = Undefined
    /\ dbTimers = {}
    /\ dbCalls = <<>>
    /\ dbInvoked = <<>>

\* ------------------------------------------------------------ throttle
ThrottleImpls == {"events", "functions", "dom", "performance"}

\* `let waiting = false` in the events module, `let inThrottle` in the others
THInitial(impl) == IF impl = "events" THEN "false" ELSE "undefined"

\* throttle(fn, limit) of each module
THConstructed(limit) ==
    /\ thLimit = limit
    /\ thFlag = [i \in ThrottleImpls |-> THInitial(i)]
    /\ thTimer = [i \in ThrottleImpls |-> NoTime]
    /\ thInvoked = [i \in ThrottleImpls |-> <<>>]
    /\ thLast = [op |-> "new", at |-> 0, args |-> Undefined, calls |-> 0,
                 before |-> [i \in ThrottleImpls |-> <<>>]]

\* ------------------------------------------------------------ createCancellablePromise
NumWrappers == 2

Wrappers == 1..NumWrappers

Pending == [state |-> "pending", value |-> Undefined]

\* createCancellablePromise(promise) called for each promise: let isCancelled = false
CPConstructed ==
    /\ cpCancelled = [w \in Wrappers |-> FALSE]
    /\ cpReaction = [w \in Wrappers |-> "waiting"]
    /\ cpWrapped = [w \in Wrappers |-> Pending]
    /\ cpSettles = [w \in Wrappers |-> 0]
    /\ cpSeen = [w \in Wrappers |-> FALSE]

\* ------------------------------------------------------------ Assertions
ASConstructed == asLog = <<>>

\* ------------------------------------------------------------ AsyncQueue
\* new AsyncQueue()
AQConstructed ==
    /\ aqQueue = <<>>
    /\ aqProcessing = FALSE
    /\ aqLoops = {}
    /\ aqStarted = <<>>
    /\ aqEnqueued = 0
    /\ aqSettled = <<>>

\* ------------------------------------------------------------ asyncPool
MaxItems == 4

MaxPoolLimit == 2

\* asyncPool(poolLimit, items, iteratorFn) is about to be called
APConstructed(poolLimit, count) ==
    /\ apLimit = poolLimit
    /\ apCount = count
    /\ apIdx = 0
    /\ apState = [i \in 1..count |-> "unstarted"]
    /\ apPool = {}
    /\ apPc = "call"

\* ------------------------------------------------------------ createObjectPool
PoolImpls == {"memory", "performance"}

MaxPool == 3

\* createObjectPool(size) / createObjectPool(factory, size): every inUse is false
OPConstructed(impl, size) ==
    /\ opImpl = impl
    /\ opPool = [i \in 1..size |-> FALSE]
    /\ opHeld = {}
    /\ opLast = [op |-> "new", object |-> Null, before |-> <<>>, held |-> {}]

\* ------------------------------------------------------------ DependencyManager
\* new DependencyManager()
DMConstructed ==
    /\ dmModules = {}
    /\ dmDeps = EmptyMap
    /\ dmPc = "idle"
    /\ dmRoot = ""
    /\ dmStack = <<>>
    /\ dmLog = <<>>
    /\ dmMissing = ""

\* ------------------------------------------------------------ the other classes
\* Every class but the one a specification is about is in its constructed state.
ParkedExcept(class) ==
    /\ now = 0
    /\ IF class = "LRU" THEN TRUE ELSE capacity = 1 /\ LRUConstructed
    /\ IF class = "CB" THEN TRUE ELSE CBConstructed(1)
    /\ IF class = "Emit" THEN TRUE ELSE emitter = "EventEmitter" /\ EmitterConstructed
    /\ IF class = "TR" THEN TRUE ELSE RunnerConstructed
    /\ IF class = "RL" THEN TRUE ELSE RLConstructed(1, 1)
    /\ IF class = "SL" THEN TRUE ELSE SLConstructed(1, 1)
    /\ IF class = "BR" THEN TRUE ELSE BRConstructed(1)
    /\ IF class = "RT" THEN TRUE ELSE RTConstructed("retry", 1, 1)
    /\ IF class = "DB" THEN TRUE ELSE DBConstructed(1)
    /\ IF class = "TH" THEN TRUE ELSE THConstructed(1)
    /\ IF class = "CP" THEN TRUE
       ELSE cpPromise = [w \in Wrappers |-> Pending] /\ CPConstructed
    /\ IF class = "AS" THEN TRUE ELSE ASConstructed
    /\ IF class = "AQ" THEN TRUE ELSE AQConstructed
    /\ IF class = "AP" THEN TRUE ELSE APConstructed(1, 1)
    /\ IF class = "OP" THEN TRUE ELSE OPConstructed("memory", 1)
    /\ IF class = "DM" THEN TRUE ELSE DMConstructed

InitLRU ==
    /\ capacity \in 1..MaxCapacity
    /\ LRUConstructed
    /\ ParkedExcept("LRU")

Get(k) ==
    /\ clock < MaxCalls
    /\ clock' = clock + 1
    /\ LET r == LRUGet(cache, k)
       IN /\ cache' = r.cache
          /\ lruLast' = [op |-> "get", key |-> k, value |-> Absent, ret |-> r.ret,
                         evicted |-> NoKey]
    /\ IF refVal[k] = Absent
       THEN /\ refRet' = Miss
            /\ UNCHANGED <<refVal, refUsed>>
       ELSE /\ refRet' = refVal[k]
            /\ refUsed' = [refUsed EXCEPT ![k] = clock + 1]
            /\ UNCHANGED refVal
    /\ UNCHANGED <<capacity, exceptLRU>>

Put(k, v) ==
    /\ clock < MaxCalls
    /\ clock' = clock + 1
    /\ cache' = LRUPut(cache, capacity, k, v)
    /\ lruLast' = [op |-> "put", key |-> k, value |-> v, ret |-> Undefined,
                   evicted |-> LRUVictim(cache, capacity, k)]
    /\ LET victim == RefVictim(refVal, refUsed, capacity, k)
       IN /\ refVal' = [x \in Keys |-> IF x = k THEN v
                                       ELSE IF x = victim THEN Absent
                                       ELSE refVal[x]]
          /\ refUsed' = [refUsed EXCEPT ![k] = clock + 1]
    /\ refRet' = Undefined
    /\ UNCHANGED <<capacity, exceptLRU>>

NextLRU ==
    \/ \E k \in Keys : Get(k)
    \/ \E k \in Keys, v \in Vals : Put(k, v)

SpecLRU == InitLRU /\ [][NextLRU]_vars

\* ------------------------------------------------------------ CircularBuffer
\* arrays module: write(value) that advances writePtr without wrapping
CBWriteNoWrap(o, v) ==
    [o EXCEPT !.buffer = [i \in (DOMAIN o.buffer) \cup {o.writePtr} |->
                             IF i = o.writePtr THEN v ELSE o.buffer[i]],
              !.writePtr = o.writePtr + 1,
              !.count = IF o.count + 1 < o.size THEN o.count + 1 ELSE o.size]

\* arrays module: write(value)
CBWrite(o, v) ==
    [o EXCEPT !.buffer = [o.buffer EXCEPT ![o.writePtr] = v],
              !.writePtr = (o.writePtr + 1) % o.size,
              !.count = IF o.count + 1 < o.size THEN o.count + 1 ELSE o.size]

\* arrays module: read() that returns the slot without advancing readPtr
CBReadNoAdvance(o) ==
    IF o.count = 0 THEN [ret |-> Null, obj |-> o]
    ELSE [ret |-> o.buffer[o.readPtr],
          obj |-> [o EXCEPT !.count = o.count - 1]]

\* arrays module: read(): the value returned and the object afterwards
CBRead(o) ==
    IF o.count = 0 THEN [ret |-> Null, obj |-> o]
    ELSE [ret |-> o.buffer[o.readPtr],
          obj |-> [o EXCEPT !.readPtr = (o.readPtr + 1) % o.size,
                            !.count = o.count - 1]]

\* memory guide: write(data) that advances writePtr before storing
MBWritePreIncrement(o, v) ==
    [o EXCEPT !.buffer = [o.buffer EXCEPT ![(o.writePtr + 1) % o.size] = v],
              !.writePtr = (o.writePtr + 1) % o.size]

\* memory guide: write(data)
MBWrite(o, v) ==
    [o EXCEPT !.buffer = [o.buffer EXCEPT ![o.writePtr] = v],
              !.writePtr = (o.writePtr + 1) % o.size]

\* memory guide: read(): the value returned and the object afterwards
MBRead(o) ==
    [ret |-> o.buffer[o.readPtr],
     obj |-> [o EXCEPT !.readPtr = (o.readPtr + 1) % o.size]]

InitCB ==
    /\ \E size \in 1..MaxSize : CBConstructed(size)
    /\ ParkedExcept("CB")

\* write(v) on both buffers
Write(v) ==
    /\ cb' = CBWrite(cb, v)
    /\ mb' = MBWrite(mb, v)
    /\ cbOp' = "write"
    /\ overflowed' = (overflowed \/ cb.count = cb.size)
    /\ pending' = IF cb.count = cb.size THEN Append(Tail(pending), v)
                  ELSE Append(pending, v)
    /\ UNCHANGED <<cbRet, mbRet, underflowed, exceptCB>>

\* read() on both buffers
Read ==
    /\ cb' = CBRead(cb).obj
    /\ cbRet' = CBRead(cb).ret
    /\ mb' = MBRead(mb).obj
    /\ mbRet' = MBRead(mb).ret
    /\ cbOp' = "read"
    /\ underflowed' = (underflowed \/ cb.count = 0)
    /\ pending' = IF pending = <<>> THEN pending ELSE Tail(pending)
    /\ UNCHANGED <<overflowed, exceptCB>>

NextCB ==
    \/ \E v \in Vals : Write(v)
    \/ Read

SpecCB == InitCB /\ [][NextCB]_vars

\* ------------------------------------------------------------ EventEmitter
\* the Map m with key e set to value x
MapPut(m, e, x) == [k \in DOMAIN m \cup {e} |-> IF k = e THEN x ELSE m[k]]

\* the Map m without key e
MapRemove(m, e) == [k \in DOMAIN m \ {e} |-> m[k]]

\* the listeners of e in m, none when m has no key e
ListenersOf(m, e) == IF e \in DOMAIN m THEN m[e] ELSE <<>>

\* the number of listeners registered over all events
Registrations(m) ==
    LET RECURSIVE Sum(_)
        Sum(S) == IF S = {} THEN 0
                  ELSE LET e == CHOOSE x \in S : TRUE
                       IN Len(m[e]) + Sum(S \ {e})
    IN Sum(DOMAIN m)

\* EventEmitter.on that ignores a callback already registered for the event
EEOnDedupe(ev, e, callback) ==
    IF \E i \in 1..Len(ListenersOf(ev, e)) : ev[e][i] = callback THEN ev
    ELSE MapPut(ev, e, Append(ListenersOf(ev, e), callback))

\* EventEmitter.on(event, callback)
EEOn(ev, e, callback) ==
    LET withKey == IF e \in DOMAIN ev THEN ev ELSE MapPut(ev, e, <<>>)
    IN MapPut(withKey, e, Append(withKey[e], callback))

RECURSIVE RunArrayIsolated(_, _, _, _)
\* forEach over an array of callbacks that catches what a callback throws and goes on
RunArrayIsolated(ev, cbs, data, calls) ==
    IF cbs = <<>> THEN [calls |-> calls, outcome |-> "returned", atCall |-> ev]
    ELSE RunArrayIsolated(ev, Tail(cbs), data,
                          Append(calls, [cb |-> Head(cbs), arg |-> data]))

RECURSIVE RunArray(_, _, _, _)
\* Array.prototype.forEach(callback => callback(data)): the calls made so far are
\* `calls`; a callback that throws ends the loop and the exception leaves emit
RunArray(ev, cbs, data, calls) ==
    IF cbs = <<>> THEN [calls |-> calls, outcome |-> "returned", atCall |-> ev]
    ELSE LET called == Append(calls, [cb |-> Head(cbs), arg |-> data])
         IN IF Throws(Head(cbs))
            THEN [calls |-> called, outcome |-> "threw", atCall |-> ev]
            ELSE RunArray(ev, Tail(cbs), data, called)

\* EventEmitter.emit(event, data): the calls made and how emit ended
EEEmit(ev, e, data) ==
    IF e \in DOMAIN ev THEN RunArray(ev, ev[e], data, <<>>)
    ELSE [calls |-> <<>>, outcome |-> "returned", atCall |-> ev]

\* ------------------------------------------------------------ EventSystem
RECURSIVE WithoutCallback(_, _)
\* the {callback, options} objects of ls whose callback is not callback, in order
WithoutCallback(ls, callback) ==
    IF ls = <<>> THEN <<>>
    ELSE IF Head(ls).callback = callback THEN WithoutCallback(Tail(ls), callback)
         ELSE <<Head(ls)>> \o WithoutCallback(Tail(ls), callback)

\* EventSystem.on(event, callback, options): a new object joins the Set each time
ESOn(ls, e, callback, once) ==
    LET withKey == IF e \in DOMAIN ls THEN ls ELSE MapPut(ls, e, <<>>)
    IN MapPut(withKey, e, Append(withKey[e], [callback |-> callback, once |-> once]))

\* EventSystem.off(event, callback)
ESOff(ls, e, callback) ==
    IF e \notin DOMAIN ls THEN ls
    ELSE MapPut(ls, e, WithoutCallback(ls[e], callback))

RECURSIVE ESRun(_, _, _, _, _)
\* Set.prototype.forEach of emit: `todo` are the objects of the Set not yet visited
\* (an object deleted before its visit is not visited)
ESRun(ls, e, data, todo, calls) ==
    IF todo = <<>>
    THEN [listeners |-> ls, calls |-> calls, outcome |-> "returned", atCall |-> ls]
    ELSE LET l == Head(todo)
             ls1 == IF l.once THEN ESOff(ls, e, l.callback) ELSE ls
             todo1 == IF l.once THEN WithoutCallback(Tail(todo), l.callback)
                      ELSE Tail(todo)
             called == Append(calls, [cb |-> l.callback, arg |-> data])
         IN IF Throws(l.callback)
            THEN [listeners |-> ls1, calls |-> called, outcome |-> "threw",
                  atCall |-> ls1]
            ELSE ESRun(ls1, e, data, todo1, called)

\* EventSystem.emit(event, data)
ESEmit(ls, e, data) ==
    IF e \notin DOMAIN ls
    THEN [listeners |-> ls, calls |-> <<>>, outcome |-> "returned", atCall |-> ls]
    ELSE ESRun(ls, e, data, ls[e], <<>>)

\* ------------------------------------------------- MemoryEfficientEmitter
\* MemoryEfficientEmitter.on(event, callback): Set.add keeps one copy of a callback
MEOn(ev, e, callback) ==
    LET withKey == IF e \in DOMAIN ev THEN ev ELSE MapPut(ev, e, <<>>)
    IN IF \E i \in 1..Len(withKey[e]) : withKey[e][i] = callback THEN withKey
       ELSE MapPut(withKey, e, Append(withKey[e], callback))

\* what on(event, callback) returns: () => this.off(event, callback)
MEUnsubscriber(e, callback) == [event |-> e, callback |-> callback]

\* an off that leaves the event in the Map when its last callback is deleted
MEOffKeepEmpty(ev, e, callback) ==
    IF e \notin DOMAIN ev THEN ev
    ELSE MapPut(ev, e, SelectSeq(ev[e], LAMBDA x : x # callback))

\* MemoryEfficientEmitter.off(event, callback)
MEOff(ev, e, callback) ==
    IF e \notin DOMAIN ev THEN ev
    ELSE LET callbacks == SelectSeq(ev[e], LAMBDA x : x # callback)
         IN IF callbacks = <<>> THEN MapRemove(ev, e)
            ELSE MapPut(ev, e, callbacks)

RECURSIVE RunSet(_, _, _, _)
\* Set.prototype.forEach(callback => callback(...args))
RunSet(ev, cbs, data, calls) ==
    IF cbs = <<>> THEN [calls |-> calls, outcome |-> "returned", atCall |-> ev]
    ELSE LET called == Append(calls, [cb |-> Head(cbs), arg |-> data])
         IN IF Throws(Head(cbs))
            THEN [calls |-> called, outcome |-> "threw", atCall |-> ev]
            ELSE RunSet(ev, Tail(cbs), data, called)

\* MemoryEfficientEmitter.emit(event, ...args)
MEEmit(ev, e, data) ==
    IF e \in DOMAIN ev THEN RunSet(ev, ev[e], data, <<>>)
    ELSE [calls |-> <<>>, outcome |-> "returned", atCall |-> ev]

\* ---- the calls made on the emitter object ----
InitEmit ==
    /\ emitter \in {"EventEmitter", "EventSystem", "MemoryEfficientEmitter"}
    /\ EmitterConstructed
    /\ ParkedExcept("Emit")

Called(op, e) == [NoCall EXCEPT !.op = op, !.event = e]

EmitterOn(e, callback) ==
    /\ emitter = "EventEmitter"
    /\ Registrations(eeEvents) < MaxListeners
    /\ eeEvents' = EEOn(eeEvents, e, callback)
    /\ onCalls' = Append(onCalls, [event |-> e, cb |-> callback])
    /\ emLast' = Called("on", e)
    /\ UNCHANGED <<emitter, esListeners, meEvents, meUnsubs, exceptEmit>>

EmitterEmit(e, data) ==
    /\ emitter = "EventEmitter"
    /\ LET r == EEEmit(eeEvents, e, data)
       IN emLast' = [op |-> "emit", event |-> e, data |-> data, calls |-> r.calls,
                     outcome |-> r.outcome, registered |-> ListenersOf(eeEvents, e),
                     atCall |-> r.atCall]
    /\ UNCHANGED <<emitter, eeEvents, esListeners, meEvents, onCalls, meUnsubs, exceptEmit>>

SystemOn(e, callback, once) ==
    /\ emitter = "EventSystem"
    /\ Registrations(esListeners) < MaxListeners
    /\ esListeners' = ESOn(esListeners, e, callback, once)
    /\ emLast' = Called("on", e)
    /\ UNCHANGED <<emitter, eeEvents, meEvents, onCalls, meUnsubs, exceptEmit>>

SystemOff(e, callback) ==
    /\ emitter = "EventSystem"
    /\ esListeners' = ESOff(esListeners, e, callback)
    /\ emLast' = Called("off", e)
    /\ UNCHANGED <<emitter, eeEvents, meEvents, onCalls, meUnsubs, exceptEmit>>

SystemEmit(e, data) ==
    /\ emitter = "EventSystem"
    /\ LET r == ESEmit(esListeners, e, data)
       IN /\ esListeners' = r.listeners
          /\ emLast' = [op |-> "emit", event |-> e, data |-> data, calls |-> r.calls,
                        outcome |-> r.outcome,
                        registered |-> ListenersOf(esListeners, e),
                        atCall |-> r.atCall]
    /\ UNCHANGED <<emitter, eeEvents, meEvents, onCalls, meUnsubs, exceptEmit>>

EfficientOn(e, callback) ==
    /\ emitter = "MemoryEfficientEmitter"
    /\ Registrations(meEvents) < MaxListeners
    /\ meEvents' = MEOn(meEvents, e, callback)
    /\ meUnsubs' = meUnsubs \cup {MEUnsubscriber(e, callback)}
    /\ emLast' = Called("on", e)
    /\ UNCHANGED <<emitter, eeEvents, esListeners, onCalls, exceptEmit>>

EfficientOff(e, callback) ==
    /\ emitter = "MemoryEfficientEmitter"
    /\ meEvents' = MEOff(meEvents, e, callback)
    /\ emLast' = [NoCall EXCEPT !.op = "off", !.event = e,
                                !.registered = <<callback>>, !.atCall = meEvents]
    /\ UNCHANGED <<emitter, eeEvents, esListeners, onCalls, meUnsubs, exceptEmit>>

EfficientEmit(e, data) ==
    /\ emitter = "MemoryEfficientEmitter"
    /\ LET r == MEEmit(meEvents, e, data)
       IN emLast' = [op |-> "emit", event |-> e, data |-> data, calls |-> r.calls,
                     outcome |-> r.outcome, registered |-> ListenersOf(meEvents, e),
                     atCall |-> r.atCall]
    /\ UNCHANGED <<emitter, eeEvents, esListeners, meEvents, onCalls, meUnsubs, exceptEmit>>

\* a function returned by on() is called
EfficientUnsubscribe(fn) ==
    /\ emitter = "MemoryEfficientEmitter"
    /\ fn \in meUnsubs
    /\ meEvents' = MEOff(meEvents, fn.event, fn.callback)
    /\ emLast' = [NoCall EXCEPT !.op = "unsubscribe", !.event = fn.event,
                                !.registered = <<fn.callback>>, !.atCall = meEvents]
    /\ UNCHANGED <<emitter, eeEvents, esListeners, onCalls, meUnsubs, exceptEmit>>

NextEmit ==
    \/ \E e \in Events, callback \in Callbacks : EmitterOn(e, callback)
    \/ \E e \in Events, d \in Vals : EmitterEmit(e, d)
    \/ \E e \in Events, callback \in Callbacks, once \in BOOLEAN : SystemOn(e, callback, once)
    \/ \E e \in Events, callback \in Callbacks : SystemOff(e, callback)
    \/ \E e \in Events, d \in Vals : SystemEmit(e, d)
    \/ \E e \in Events, callback \in Callbacks : EfficientOn(e, callback)
    \/ \E e \in Events, callback \in Callbacks : EfficientOff(e, callback)
    \/ \E e \in Events, d \in Vals : EfficientEmit(e, d)
    \/ \E fn \in meUnsubs : EfficientUnsubscribe(fn)

SpecEmit == InitEmit /\ [][NextEmit]_vars

\* ------------------------------------------------------------ TestRunner
\* test(name, testFn) that appends an entry even when the name is registered
TRTestAppend(ts, name, fn) == Append(ts, [name |-> name, fn |-> fn])

\* test(name, testFn): this.tests.set(name, testFn)
TRTest(ts, name, fn) ==
    IF \E i \in 1..Len(ts) : ts[i].name = name
    THEN [i \in 1..Len(ts) |-> IF ts[i].name = name THEN [name |-> name, fn |-> fn]
                                ELSE ts[i]]
    ELSE Append(ts, [name |-> name, fn |-> fn])

\* the function a step of the try block calls for test number i
StepFn(step, i) ==
    CASE step = "before" -> beforeEach
      [] step = "body" -> tests[i].fn
      [] step = "after" -> afterEach

\* the statement that follows a statement of the try block
StepAfter(step) ==
    CASE step = "before" -> "body"
      [] step = "body" -> "after"
      [] step = "after" -> "passed"

\* an await that does not wait for the call to settle
AwaitedNot(calls) == TRUE

\* await: runTests goes on only once the call it awaits has settled
Awaited(calls) == calls = {}

InitTR ==
    /\ RunnerConstructed
    /\ ParkedExcept("TR")

Test(name, fn) ==
    /\ trPc = "idle"
    /\ Len(TRTest(tests, name, fn)) <= MaxTests
    /\ tests' = TRTest(tests, name, fn)
    /\ registered' = registered \cup {name}
    /\ UNCHANGED <<beforeEach, afterEach, trPc, trIdx, trStep, inflight, results, trLog,
                   exceptTR>>

Before(fn) ==
    /\ trPc = "idle"
    /\ beforeEach' = fn
    /\ UNCHANGED <<tests, afterEach, registered, trPc, trIdx, trStep, inflight, results,
                   trLog, exceptTR>>

After(fn) ==
    /\ trPc = "idle"
    /\ afterEach' = fn
    /\ UNCHANGED <<tests, beforeEach, registered, trPc, trIdx, trStep, inflight, results,
                   trLog, exceptTR>>

\* runTests() is called: the results object is built and the loop is entered
RunTests ==
    /\ trPc = "idle"
    /\ trPc' = "running"
    /\ results' = [passed |-> 0, failed |-> 0, total |-> Len(tests), failures |-> <<>>]
    /\ trIdx' = 1
    /\ trStep' = "before"
    /\ UNCHANGED <<tests, beforeEach, afterEach, registered, inflight, trLog,
                   exceptTR>>

\* `if (this.beforeEach)` / `if (this.afterEach)` with no hook set: nothing is called
SkipHook ==
    /\ trPc = "running"
    /\ trIdx <= Len(tests)
    /\ trStep \in {"before", "after"}
    /\ Awaited(inflight)
    /\ StepFn(trStep, trIdx) = NoFn
    /\ trStep' = StepAfter(trStep)
    /\ UNCHANGED <<tests, beforeEach, afterEach, registered, trPc, trIdx, inflight,
                   results, trLog, exceptTR>>

\* the hook or the test body is called
StartStep ==
    /\ trPc = "running"
    /\ trIdx <= Len(tests)
    /\ trStep \in {"before", "body", "after"}
    /\ Awaited(inflight)
    /\ StepFn(trStep, trIdx) # NoFn
    /\ inflight' = inflight \cup {[test |-> trIdx, step |-> trStep]}
    /\ trLog' = Append(trLog, [test |-> trIdx, step |-> trStep, ev |-> "start"])
    /\ trStep' = StepAfter(trStep)
    /\ UNCHANGED <<tests, beforeEach, afterEach, registered, trPc, trIdx, results,
                   exceptTR>>

\* an awaited call completes: runTests resumes after the await
SettleOk(c) ==
    /\ trPc = "running"
    /\ c \in inflight
    /\ StepFn(c.step, c.test) = "ok"
    /\ inflight' = inflight \ {c}
    /\ trLog' = Append(trLog, [test |-> c.test, step |-> c.step, ev |-> "end"])
    /\ UNCHANGED <<tests, beforeEach, afterEach, registered, trPc, trIdx, trStep,
                   results, exceptTR>>

\* an awaited call throws or rejects: the catch block runs; reading error.message
\* of null or undefined throws a TypeError out of the catch block, which rejects
\* the promise of runTests
SettleThrow(c) ==
    /\ trPc = "running"
    /\ c \in inflight
    /\ StepFn(c.step, c.test) \in {"error", "value", "nullish"}
    /\ inflight' = inflight \ {c}
    /\ trLog' = Append(trLog, [test |-> c.test, step |-> c.step, ev |-> "throw"])
    /\ results' = [results EXCEPT
                      !.failed = results.failed + 1,
                      !.failures = Append(results.failures,
                                          [name |-> tests[c.test].name,
                                           error |-> StepFn(c.step, c.test)])]
    /\ IF StepFn(c.step, c.test) = "nullish"
       THEN /\ trPc' = "rejected"
            /\ UNCHANGED <<trIdx, trStep>>
       ELSE /\ trIdx' = c.test + 1
            /\ trStep' = "before"
            /\ UNCHANGED trPc
    /\ UNCHANGED <<tests, beforeEach, afterEach, registered, exceptTR>>

\* results.passed++ at the end of the try block, then the next test
Pass ==
    /\ trPc = "running"
    /\ trIdx <= Len(tests)
    /\ trStep = "passed"
    /\ Awaited(inflight)
    /\ results' = [results EXCEPT !.passed = results.passed + 1]
    /\ trIdx' = trIdx + 1
    /\ trStep' = "before"
    /\ UNCHANGED <<tests, beforeEach, afterEach, registered, trPc, inflight, trLog,
                   exceptTR>>

\* the loop is over: return results
Return ==
    /\ trPc = "running"
    /\ trIdx > Len(tests)
    /\ Awaited(inflight)
    /\ trPc' = "done"
    /\ UNCHANGED <<tests, beforeEach, afterEach, registered, trIdx, trStep, inflight,
                   results, trLog, exceptTR>>

NextTR ==
    \/ \E name \in TestNames, fn \in Fns : Test(name, fn)
    \/ \E fn \in Fns : Before(fn)
    \/ \E fn \in Fns : After(fn)
    \/ RunTests
    \/ SkipHook
    \/ StartStep
    \/ \E c \in inflight : SettleOk(c)
    \/ \E c \in inflight : SettleThrow(c)
    \/ Pass
    \/ Return

SpecTR == InitTR /\ [][NextTR]_vars

\* ------------------------------------------------------------ Assertions
MaxAsserts == 3

\* message of the error thrown inside the try block of assertThrows
ExpectedToThrow == -4

\* message of the error thrown inside the try block of assertRejects
ExpectedToReject == -5

\* what a call of the function under test does: return a value or throw one
FnBehaviours == [type : {"return", "throw"}, value : Vals]

\* the promises handed to assertRejects
Promises == [state : {"fulfilled", "rejected"}, value : Vals] \cup {Pending}

\* assertThrows(fn): try { fn(); throw new Error(...) } catch (error) { return error }
\* The catch block receives whatever the try block throws, the error raised after
\* fn() returned included.
AssertThrows(f) ==
    LET caught == IF f.type = "throw" THEN f.value ELSE ExpectedToThrow
    IN [type |-> "return", value |-> caught]

\* assertRejects(promise): the same shape around `await promise`; the function
\* is async, so what it returns fulfils its promise, and it never settles while
\* the awaited promise is pending.
AssertRejects(q) ==
    IF q.state = "pending" THEN Pending
    ELSE LET caught == IF q.state = "rejected" THEN q.value ELSE ExpectedToReject
         IN [state |-> "fulfilled", value |-> caught]

InitAS ==
    /\ ASConstructed
    /\ ParkedExcept("AS")

CallAssertThrows(f) ==
    /\ Len(asLog) < MaxAsserts
    /\ asLog' = Append(asLog, [op |-> "assertThrows", input |-> f,
                               result |-> AssertThrows(f)])
    /\ UNCHANGED exceptAS

CallAssertRejects(q) ==
    /\ Len(asLog) < MaxAsserts
    /\ asLog' = Append(asLog, [op |-> "assertRejects", input |-> q,
                               result |-> AssertRejects(q)])
    /\ UNCHANGED exceptAS

NextAS ==
    \/ \E f \in FnBehaviours : CallAssertThrows(f)
    \/ \E q \in Promises : CallAssertRejects(q)

SpecAS == InitAS /\ [][NextAS]_vars

\* ------------------------------------------------------------ time
MaxTime == 4

\* Date.now() moves on between two steps of the event loop
Tick ==
    /\ now < MaxTime
    /\ now' = now + 1

\* Timers run in the order of their due times, and in creation order when due
\* together; a timer never runs early but may run late. `timers` is a sequence in
\* creation order of records with a field due.
TimerMayFire(timers, i) ==
    /\ now >= timers[i].due
    /\ \A j \in 1..Len(timers) :
          \/ timers[j].due > timers[i].due
          \/ (timers[j].due = timers[i].due /\ j >= i)

\* the sequence without its element number i
RemoveAt(seq, i) == [k \in 1..(Len(seq) - 1) |-> IF k < i THEN seq[k] ELSE seq[k + 1]]

\* ------------------------------------------------------------ RateLimiter
MaxRequests == 2

MaxWindow == 2

MaxThrottleCalls == 3

\* this.requests.filter(time => now - time < this.timeWindow)
RLFilter(requests, at, window) == SelectSeq(requests, LAMBDA time : at - time < window)

\* this.timeWindow - (now - oldestRequest), with oldestRequest = this.requests[0]
RLWaitTime(requests, at, window) == window - (at - requests[1])

InitRL ==
    /\ \E maxRequests \in 1..MaxRequests, timeWindow \in 1..MaxWindow :
          RLConstructed(maxRequests, timeWindow)
    /\ ParkedExcept("RL")

\* throttle(fn) up to its first await or, with room in the window, to its end
RLThrottle ==
    /\ Len(rlStarts) + Len(rlWaiting) < MaxThrottleCalls
    /\ LET filtered == RLFilter(rlRequests, now, rlWindow) IN
       IF Len(filtered) >= rlMax
       THEN /\ rlRequests' = filtered
            /\ rlWaiting' = Append(rlWaiting,
                                   [at |-> now,
                                    due |-> now + RLWaitTime(filtered, now, rlWindow)])
            /\ UNCHANGED rlStarts
       ELSE /\ rlRequests' = Append(filtered, now)
            /\ rlStarts' = Append(rlStarts, now)
            /\ UNCHANGED rlWaiting
    /\ UNCHANGED <<now, rlMax, rlWindow, exceptRL>>

\* the timer of a waiting throttle(fn) runs: this.requests.push(now) with the now
\* read before the wait, then fn() is invoked
RLResume(i) ==
    /\ TimerMayFire(rlWaiting, i)
    /\ rlRequests' = Append(rlRequests, rlWaiting[i].at)
    /\ rlStarts' = Append(rlStarts, now)
    /\ rlWaiting' = RemoveAt(rlWaiting, i)
    /\ UNCHANGED <<now, rlMax, rlWindow, exceptRL>>

RLTick ==
    /\ Tick
    /\ UNCHANGED <<rlVars, exceptRL>>

NextRL ==
    \/ RLThrottle
    \/ \E i \in 1..Len(rlWaiting) : RLResume(i)
    \/ RLTick

SpecRL == InitRL /\ [][NextRL]_vars

\* ------------------------------------------------------------ createRateLimiter
MaxLimit == 2

MaxInterval == 2

MaxGrants == 4

\* requests.get(clientId) || []
SLGet(requests, clientId) ==
    IF clientId \in DOMAIN requests THEN requests[clientId] ELSE <<>>

\* clientRequests.filter(time => now - time < interval)
SLFilter(clientRequests, at, interval) ==
    SelectSeq(clientRequests, LAMBDA time : at - time < interval)

\* a limiter that refuses only above the limit
SLRefusedAboveLimit(validRequests, limit) == Len(validRequests) > limit

\* if (validRequests.length >= limit) return false
SLRefused(validRequests, limit) == Len(validRequests) >= limit

InitSL ==
    /\ \E limit \in 1..MaxLimit, interval \in 1..MaxInterval :
          SLConstructed(limit, interval)
    /\ ParkedExcept("SL")

\* the returned function is called with clientId
SLCall(clientId) ==
    /\ LET validRequests == SLFilter(SLGet(slRequests, clientId), now, slInterval)
           refused == SLRefused(validRequests, slLimit)
       IN /\ refused \/ Len(slGrants) < MaxGrants
          /\ IF refused
             THEN UNCHANGED <<slRequests, slGrants>>
             ELSE /\ slRequests' = MapPut(slRequests, clientId,
                                          Append(validRequests, now))
                  /\ slGrants' = Append(slGrants, [client |-> clientId, at |-> now])
          /\ slLast' = [op |-> "call", client |-> clientId, at |-> now,
                        ret |-> ~refused, before |-> slRequests]
    /\ UNCHANGED <<now, slLimit, slInterval, exceptSL>>

SLTick ==
    /\ Tick
    /\ UNCHANGED <<slVars, exceptSL>>

NextSL ==
    \/ \E clientId \in Clients : SLCall(clientId)
    \/ SLTick

SpecSL == InitSL /\ [][NextSL]_vars

\* ------------------------------------------------------------ circuitBreaker
MaxThreshold == 2

MaxInflight == 2

MaxBreakerTicks == 3

\* the literal of `timeSinceLastFailure < 60000`
Cooldown == 60000

\* Date.now() - lastFailure, where a null lastFailure converts to 0
BRSince(at, lastFailure) == at - (IF lastFailure = NoTime THEN 0 ELSE lastFailure)

\* a breaker that is still open exactly one minute after the last failure
BROpenInclusive(at, lastFailure) == BRSince(at, lastFailure) <= Cooldown

\* timeSinceLastFailure < 60000
BROpen(at, lastFailure) == BRSince(at, lastFailure) < Cooldown

\* a breaker that forgets its failures after a success
BRAfterSuccessReset(failures) == 0

\* the try block returns the value of operation: failures is not written
BRAfterSuccess(failures) == failures

\* the record of a step of the wrapper, with the state it started from; succeeded
\* tells whether operation has fulfilled since failures was last set to 0 by the
\* timeout branch (or since the wrapper was made)
BRStep(op, open, reset, invoked) ==
    [op |-> op, at |-> now, open |-> open, reset |-> reset, invoked |-> invoked,
     failures |-> brFailures, lastFailure |-> brLastFailure, inflight |-> brInflight,
     succeeded |-> ~reset /\ (brLast.succeeded \/ op = "return")]

InitBR ==
    /\ \E threshold \in 1..MaxThreshold : BRConstructed(threshold)
    /\ ParkedExcept("BR")

\* the wrapper is called: it throws 'Circuit breaker open', or it (resets and)
\* calls operation and waits for it
BRCall ==
    /\ IF brFailures >= brThreshold
       THEN IF BROpen(now, brLastFailure)
            THEN /\ brLast' = BRStep("call", TRUE, FALSE, FALSE)
                 /\ UNCHANGED <<brFailures, brInflight>>
            ELSE /\ brInflight < MaxInflight
                 /\ brFailures' = 0
                 /\ brInflight' = brInflight + 1
                 /\ brLast' = BRStep("call", FALSE, TRUE, TRUE)
       ELSE /\ brInflight < MaxInflight
            /\ brInflight' = brInflight + 1
            /\ brLast' = BRStep("call", FALSE, FALSE, TRUE)
            /\ UNCHANGED brFailures
    /\ UNCHANGED <<now, brThreshold, brLastFailure, brSteps, exceptBR>>

\* operation fulfils: the wrapper returns its value
BRSucceed ==
    /\ brInflight > 0
    /\ brInflight' = brInflight - 1
    /\ brFailures' = BRAfterSuccess(brFailures)
    /\ brLast' = BRStep("return", FALSE, FALSE, FALSE)
    /\ UNCHANGED <<now, brThreshold, brLastFailure, brSteps, exceptBR>>

\* operation throws or rejects: failures++; lastFailure = Date.now(); throw error
BRFail ==
    /\ brInflight > 0
    /\ brInflight' = brInflight - 1
    /\ brFailures' = brFailures + 1
    /\ brLastFailure' = now
    /\ brLast' = BRStep("throw", FALSE, FALSE, FALSE)
    /\ UNCHANGED <<now, brThreshold, brSteps, exceptBR>>

\* time passes: a millisecond, a millisecond less than a minute, or a minute
BRTick(d) ==
    /\ brSteps < MaxBreakerTicks
    /\ brSteps' = brSteps + 1
    /\ now' = now + d
    /\ UNCHANGED <<brThreshold, brFailures, brLastFailure, brInflight, brLast, exceptBR>>

NextBR ==
    \/ BRCall
    \/ BRSucceed
    \/ BRFail
    \/ \E d \in {1, Cooldown - 1, Cooldown} : BRTick(d)

SpecBR == InitBR /\ [][NextBR]_vars

\* ------------------------------------------------------------ retry loops
MaxAttempts == 3

MaxDelay == 2

\* `let attempt = 1` in RetryMechanism.retry and retryOperation, `let i = 0` in retry
RTFirst(impl) == IF impl = "retry" THEN 0 ELSE 1

\* the loop condition: attempt <= maxAttempts, or i < attempts
RTContinue(impl, counter, n) == IF impl = "retry" THEN counter < n ELSE counter <= n

\* a test of the last attempt that is one late
RTLastLate(impl, counter, n) == IF impl = "retry" THEN counter = n ELSE counter = n + 1

\* if (attempt === maxAttempts) throw error, or if (i === attempts - 1) throw error
RTLast(impl, counter, n) == IF impl = "retry" THEN counter = n - 1 ELSE counter = n

RTEvent(ev, value, due) == [ev |-> ev, at |-> now, value |-> value, due |-> due]

\* the loop test with the counter at `counter`: the operation is called and
\* awaited, or the loop is left and the function returns undefined
RTLoop(counter) ==
    /\ rtCounter' = counter
    /\ IF RTContinue(rtImpl, counter, rtMax)
       THEN /\ rtPc' = "operation"
            /\ rtLog' = Append(rtLog, RTEvent("attempt", Undefined, NoTime))
            /\ UNCHANGED rtResult
       ELSE /\ rtPc' = "done"
            /\ rtResult' = [state |-> "fulfilled", value |-> Undefined]
            /\ UNCHANGED rtLog

InitRT ==
    /\ \E impl \in RetryImpls, maxAttempts \in 1..MaxAttempts, delay \in 1..MaxDelay :
          RTConstructed(impl, maxAttempts, delay)
    /\ ParkedExcept("RT")

\* the retry function is called: it runs up to its first await
RTCall ==
    /\ rtPc = "call"
    /\ RTLoop(RTFirst(rtImpl))
    /\ UNCHANGED <<now, rtImpl, rtMax, rtDelay, rtTimer, exceptRT>>

\* the awaited operation fulfils: return its value
RTSucceed(v) ==
    /\ rtPc = "operation"
    /\ rtPc' = "done"
    /\ rtResult' = [state |-> "fulfilled", value |-> v]
    /\ rtLog' = Append(rtLog, RTEvent("success", v, NoTime))
    /\ UNCHANGED <<now, rtImpl, rtMax, rtDelay, rtCounter, rtTimer, exceptRT>>

\* the awaited operation throws or rejects: the catch block rethrows on the last
\* attempt and otherwise sets the timer
RTFail(e) ==
    /\ rtPc = "operation"
    /\ IF RTLast(rtImpl, rtCounter, rtMax)
       THEN /\ rtPc' = "done"
            /\ rtResult' = [state |-> "rejected", value |-> e]
            /\ rtLog' = Append(rtLog, RTEvent("failure", e, NoTime))
            /\ UNCHANGED rtTimer
       ELSE /\ rtPc' = "timer"
            /\ rtTimer' = now + rtDelay
            /\ rtLog' = Append(Append(rtLog, RTEvent("failure", e, NoTime)),
                               RTEvent("wait", Undefined, now + rtDelay))
            /\ UNCHANGED rtResult
    /\ UNCHANGED <<now, rtImpl, rtMax, rtDelay, rtCounter, exceptRT>>

\* the timer runs: the counter is incremented and the loop test is made again
RTTimer ==
    /\ rtPc = "timer"
    /\ now >= rtTimer
    /\ rtTimer' = NoTime
    /\ RTLoop(rtCounter + 1)
    /\ UNCHANGED <<now, rtImpl, rtMax, rtDelay, exceptRT>>

RTTick ==
    /\ Tick
    /\ UNCHANGED <<rtVars, exceptRT>>

NextRT ==
    \/ RTCall
    \/ \E v \in Vals : RTSucceed(v)
    \/ \E e \in Vals : RTFail(e)
    \/ RTTimer
    \/ RTTick

SpecRT == InitRT /\ [][NextRT]_vars

\* ------------------------------------------------------------ debounce
MaxBurst == 3

\* a clearTimeout that cancels nothing
DBClearNothing(timers, id) == timers

\* clearTimeout(timeoutId): the timer with that id, if still pending, is removed
DBClearTimeout(timers, id) == {t \in timers : t.id # id}

InitDB ==
    /\ \E delay \in 1..MaxDelay : DBConstructed(delay)
    /\ ParkedExcept("DB")

\* the debounced function is called with args: clearTimeout, then setTimeout,
\* whose id (the number of the call) is kept in timeoutId
DBCall(args) ==
    /\ Len(dbCalls) < MaxBurst
    /\ LET id == Len(dbCalls) + 1 IN
          /\ dbTimers' = DBClearTimeout(dbTimers, dbTimeoutId)
                            \cup {[id |-> id, due |-> now + dbDelay, args |-> args]}
          /\ dbTimeoutId' = id
    /\ dbCalls' = Append(dbCalls, [at |-> now, args |-> args])
    /\ UNCHANGED <<now, dbDelay, dbInvoked, exceptDB>>

\* a timer runs: fn.apply(this, args) with the args of the call that set it
DBFire(t) ==
    /\ now >= t.due
    /\ \A u \in dbTimers : u.due > t.due \/ (u.due = t.due /\ u.id >= t.id)
    /\ dbTimers' = dbTimers \ {t}
    /\ dbInvoked' = Append(dbInvoked, [at |-> now, args |-> t.args, call |-> t.id,
                                       calls |-> Len(dbCalls)])
    /\ UNCHANGED <<now, dbDelay, dbTimeoutId, dbCalls, exceptDB>>

DBTick ==
    /\ Tick
    /\ UNCHANGED <<dbVars, exceptDB>>

NextDB ==
    \/ \E args \in Vals : DBCall(args)
    \/ \E t \in dbTimers : DBFire(t)
    \/ DBTick

SpecDB == InitDB /\ [][NextDB]_vars

\* ------------------------------------------------------------ throttle
\* a throttle that lets every call through
THLetThrough(flag) == TRUE

\* if (!waiting) / if (!inThrottle): undefined and false let the call through
THNot(flag) == flag \in {"undefined", "false"}

\* one implementation handles a call: fn.apply(this, args); flag = true; setTimeout
THCallOne(impl, args) ==
    IF THNot(thFlag[impl])
    THEN [flag |-> "true", timer |-> now + thLimit,
          invoked |-> Append(thInvoked[impl], [at |-> now, args |-> args])]
    ELSE [flag |-> thFlag[impl], timer |-> thTimer[impl], invoked |-> thInvoked[impl]]

InitTH ==
    /\ \E limit \in 1..MaxDelay : THConstructed(limit)
    /\ ParkedExcept("TH")

\* the same call is made to the throttled function of each of the four modules
THCall(args) ==
    /\ thLast.calls < MaxThrottleCalls
    /\ thFlag' = [i \in ThrottleImpls |-> THCallOne(i, args).flag]
    /\ thTimer' = [i \in ThrottleImpls |-> THCallOne(i, args).timer]
    /\ thInvoked' = [i \in ThrottleImpls |-> THCallOne(i, args).invoked]
    /\ thLast' = [op |-> "call", at |-> now, args |-> args,
                  calls |-> thLast.calls + 1, before |-> thInvoked]
    /\ UNCHANGED <<now, thLimit, exceptTH>>

\* the timers that are due run: inThrottle = false / waiting = false
THTimers ==
    /\ \E i \in ThrottleImpls : thTimer[i] # NoTime /\ now >= thTimer[i]
    /\ thFlag' = [i \in ThrottleImpls |->
                     IF thTimer[i] # NoTime /\ now >= thTimer[i] THEN "false"
                     ELSE thFlag[i]]
    /\ thTimer' = [i \in ThrottleImpls |->
                      IF thTimer[i] # NoTime /\ now >= thTimer[i] THEN NoTime
                      ELSE thTimer[i]]
    /\ thLast' = [thLast EXCEPT !.op = "timer", !.at = now, !.before = thInvoked]
    /\ UNCHANGED <<now, thLimit, thInvoked, exceptTH>>

THTick ==
    /\ Tick
    /\ UNCHANGED <<thVars, exceptTH>>

NextTH ==
    \/ \E args \in Vals : THCall(args)
    \/ THTimers
    \/ THTick

SpecTH == InitTH /\ [][NextTH]_vars

\* ------------------------------------------------------------ createCancellablePromise
\* the reason of reject('Cancelled')
Cancelled == -6

\* a settlement callback that does not look at isCancelled
CPReactUnconditional(q, isCancelled) == q

\* the callbacks given to promise.then:
\*   value => isCancelled ? reject('Cancelled') : resolve(value)
\*   error => isCancelled ? reject('Cancelled') : reject(error)
CPReact(q, isCancelled) ==
    IF q.state = "fulfilled"
    THEN IF isCancelled THEN [state |-> "rejected", value |-> Cancelled]
         ELSE [state |-> "fulfilled", value |-> q.value]
    ELSE IF isCancelled THEN [state |-> "rejected", value |-> Cancelled]
         ELSE [state |-> "rejected", value |-> q.value]

\* createCancellablePromise(promise) has been called for each promise, none of
\* them settled yet (a promise settled beforehand has its callback queued by
\* then(), which is the state CPSettle leads to)
InitCP ==
    /\ cpPromise = [w \in Wrappers |-> Pending]
    /\ CPConstructed
    /\ ParkedExcept("CP")

\* the promise given to wrapper w settles: its callback is queued as a microtask
CPSettle(w, outcome) ==
    /\ cpPromise[w] = Pending
    /\ cpPromise' = [cpPromise EXCEPT ![w] = outcome]
    /\ cpReaction' = [cpReaction EXCEPT ![w] = "queued"]
    /\ UNCHANGED <<cpCancelled, cpWrapped, cpSettles, cpSeen, exceptCP>>

\* the queued callback runs and settles the wrapped promise
CPRun(w) ==
    /\ cpReaction[w] = "queued"
    /\ cpReaction' = [cpReaction EXCEPT ![w] = "run"]
    /\ IF cpWrapped[w] = Pending
       THEN /\ cpWrapped' = [cpWrapped EXCEPT
                                ![w] = CPReact(cpPromise[w], cpCancelled[w])]
            /\ cpSettles' = [cpSettles EXCEPT ![w] = cpSettles[w] + 1]
       ELSE UNCHANGED <<cpWrapped, cpSettles>>
    /\ UNCHANGED <<cpPromise, cpCancelled, cpSeen, exceptCP>>

\* cancel(): isCancelled = true; cpSeen remembers whether the call came before
\* the settlement callback ran
CPCancel(w) ==
    /\ cpCancelled' = [cpCancelled EXCEPT ![w] = TRUE]
    /\ cpSeen' = [cpSeen EXCEPT ![w] = cpSeen[w] \/ cpReaction[w] # "run"]
    /\ UNCHANGED <<cpPromise, cpReaction, cpWrapped, cpSettles, exceptCP>>

NextCP ==
    \/ \E w \in Wrappers, outcome \in Promises \ {Pending} : CPSettle(w, outcome)
    \/ \E w \in Wrappers : CPRun(w)
    \/ \E w \in Wrappers : CPCancel(w)

SpecCP == InitCP /\ [][NextCP]_vars

\* ------------------------------------------------------------ AsyncQueue
MaxTasks == 3

\* a process() without the guard on this.processing
AQBusyNever(processing) == FALSE

\* if (this.processing) return
AQBusy(processing) == processing

\* a queue that resolves the promise of enqueue whatever the task did
AQDeliverFulfilled(outcome) == [state |-> "fulfilled", value |-> outcome.value]

\* try { resolve(await task()) } catch (error) { reject(error) }: what the promise
\* returned by enqueue is settled with when the task settles with outcome
AQDeliver(outcome) ==
    IF outcome.state = "fulfilled"
    THEN [state |-> "fulfilled", value |-> outcome.value]
    ELSE [state |-> "rejected", value |-> outcome.value]

\* the while loop of process() at its test, run by loop `loop` (a new loop when
\* loop is not in loops): the next task is shifted and called, and the loop waits
\* for it; or the queue is empty and processing is set to false
AQLoop(queue, loops, loop) ==
    IF Len(queue) > 0
    THEN /\ aqQueue' = Tail(queue)
         /\ aqLoops' = (loops \ {loop}) \cup {[task |-> Head(queue)]}
         /\ aqStarted' = Append(aqStarted, Head(queue))
         /\ aqProcessing' = TRUE
    ELSE /\ aqQueue' = queue
         /\ aqLoops' = loops \ {loop}
         /\ aqProcessing' = FALSE
         /\ UNCHANGED aqStarted

InitAQ ==
    /\ AQConstructed
    /\ ParkedExcept("AQ")

\* enqueue(task): this.queue.push({ task, resolve, reject }); this.process()
AQEnqueue ==
    /\ aqEnqueued < MaxTasks
    /\ aqEnqueued' = aqEnqueued + 1
    /\ LET queue == Append(aqQueue, aqEnqueued + 1) IN
       IF AQBusy(aqProcessing)
       THEN /\ aqQueue' = queue
            /\ UNCHANGED <<aqProcessing, aqLoops, aqStarted>>
       ELSE AQLoop(queue, aqLoops, [task |-> 0])
    /\ UNCHANGED <<aqSettled, exceptAQ>>

\* the task a loop awaits settles: resolve(result) or reject(error), then the
\* while test is made again
AQSettle(loop, outcome) ==
    /\ loop \in aqLoops
    /\ aqSettled' = Append(aqSettled, [task |-> loop.task, outcome |-> outcome,
                                       promise |-> AQDeliver(outcome)])
    /\ AQLoop(aqQueue, aqLoops, loop)
    /\ UNCHANGED <<aqEnqueued, exceptAQ>>

NextAQ ==
    \/ AQEnqueue
    \/ \E loop \in aqLoops, outcome \in Promises \ {Pending} : AQSettle(loop, outcome)

SpecAQ == InitAQ /\ [][NextAQ]_vars

\* every task that has been started settles at some time
SpecAQLive ==
    /\ SpecAQ
    /\ WF_vars(\E loop \in aqLoops, outcome \in Promises \ {Pending} :
                    AQSettle(loop, outcome))

\* ------------------------------------------------------------ asyncPool
\* Promise.all(results) once the loop is over: fulfilled when every promise is
APAll(state) ==
    IF \A i \in DOMAIN state : state[i] = "fulfilled" THEN "fulfilled" ELSE "all"

RECURSIVE APRun(_, _, _, _)
\* The for loop from its top, with idx items done, up to the point where the
\* function has to wait for a promise to settle. `stale` are the promises of the
\* pool that have fulfilled and whose `() => pool.delete(promise)` is queued but
\* has not run, because then() was called on them only after the await. A
\* Promise.race over a pool that holds such a promise resolves without waiting:
\* the queued delete runs, then the loop goes on.
APRun(idx, state, pool, stale) ==
    IF idx = apCount
    THEN [idx |-> idx, state |-> state, pool |-> pool \ stale, pc |-> APAll(state)]
    ELSE LET i == idx + 1
             state1 == [state EXCEPT ![i] = "pending"]
             pool1 == pool \cup {i}
         IN IF Cardinality(pool1) >= apLimit
            THEN IF stale # {}
                 THEN APRun(i, state1, pool1 \ stale, {})
                 ELSE [idx |-> i, state |-> state1, pool |-> pool1, pc |-> "await"]
            ELSE APRun(i, state1, pool1, stale)

APBecome(r) ==
    /\ apIdx' = r.idx
    /\ apState' = r.state
    /\ apPool' = r.pool
    /\ apPc' = r.pc
    /\ UNCHANGED <<apLimit, apCount, exceptAP>>

InitAP ==
    /\ \E poolLimit \in 1..MaxPoolLimit, count \in 1..MaxItems :
          APConstructed(poolLimit, count)
    /\ ParkedExcept("AP")

\* asyncPool is called and runs up to its first wait
APCall ==
    /\ apPc = "call"
    /\ APBecome(APRun(0, apState, {}, {}))

\* the promise of item i fulfils. While the function awaits Promise.race: the
\* promise of an earlier item has its delete callback, which runs before the loop
\* resumes; the promise of the current item gets it only when the loop resumes.
APFulfil(i) ==
    /\ apState[i] = "pending"
    /\ LET state == [apState EXCEPT ![i] = "fulfilled"] IN
       CASE apPc = "await" ->
                IF i = apIdx
                THEN APBecome(APRun(apIdx, state, apPool, {i}))
                ELSE APBecome(APRun(apIdx, state, apPool \ {i}, {}))
         [] apPc = "all" ->
                APBecome([idx |-> apIdx, state |-> state, pool |-> apPool \ {i},
                          pc |-> APAll(state)])
         [] apPc = "thrown" ->
                APBecome([idx |-> apIdx, state |-> state,
                          pool |-> IF i = apIdx THEN apPool ELSE apPool \ {i},
                          pc |-> apPc])
         [] OTHER ->
                APBecome([idx |-> apIdx, state |-> state, pool |-> apPool \ {i},
                          pc |-> apPc])

\* the promise of item i rejects: it stays in the pool (then() was given no
\* rejection callback); an awaited race, or Promise.all, rejects
APReject(i) ==
    /\ apState[i] = "pending"
    /\ APBecome([idx |-> apIdx, state |-> [apState EXCEPT ![i] = "rejected"],
                 pool |-> apPool,
                 pc |-> CASE apPc = "await" -> "thrown"
                          [] apPc = "all" -> "rejected"
                          [] OTHER -> apPc])

NextAP ==
    \/ APCall
    \/ \E i \in 1..apCount : APFulfil(i)
    \/ \E i \in 1..apCount : APReject(i)

SpecAP == InitAP /\ [][NextAP]_vars

\* ----------------------------------------------------- createObjectPool
\* The objects of a pool are named by their place in the pool array: the pool of
\* 15_Memory_Management.js hands out the array's own elements, the one of
\* 18_Performance.js the object its factory made for that place (a factory makes
\* a new object on each call). 0 names an object that is not of this pool.

\* a find that does not look at inUse
OPFindAny(pool) == 1

\* pool.find(item => !item.inUse): the first object not in use, or undefined
OPFind(pool) ==
    IF \E i \in DOMAIN pool : ~pool[i]
    THEN CHOOSE i \in DOMAIN pool : ~pool[i] /\ \A j \in 1..(i - 1) : pool[j]
    ELSE Undefined

\* the inUse flags after release(o)
OPReleased(impl, pool, o) ==
    IF impl = "memory"
    THEN \* object.inUse = false, on whatever object is given
         IF o \in DOMAIN pool THEN [pool EXCEPT ![o] = FALSE] ELSE pool
    ELSE \* pool.find(item => item.object === object), then its inUse = false
         LET found == {i \in DOMAIN pool : i = o}
         IN IF found = {} THEN pool
            ELSE [pool EXCEPT ![CHOOSE i \in found : \A j \in found : i <= j] = FALSE]

InitOP ==
    /\ \E impl \in PoolImpls, size \in 1..MaxPool : OPConstructed(impl, size)
    /\ ParkedExcept("OP")

\* acquire(): opHeld is the set of objects handed out and not released since
OPAcquire ==
    LET object == OPFind(opPool) IN
    /\ opLast' = [op |-> "acquire", object |-> IF object = Undefined THEN Null ELSE object,
                  before |-> opPool, held |-> opHeld]
    /\ IF object # Undefined
       THEN /\ opPool' = [opPool EXCEPT ![object] = TRUE]
            /\ opHeld' = opHeld \cup {object}
       ELSE UNCHANGED <<opPool, opHeld>>
    /\ UNCHANGED <<opImpl, exceptOP>>

\* release(object)
OPRelease(o) ==
    /\ opLast' = [op |-> "release", object |-> o, before |-> opPool, held |-> opHeld]
    /\ opPool' = OPReleased(opImpl, opPool, o)
    /\ opHeld' = opHeld \ {o}
    /\ UNCHANGED <<opImpl, exceptOP>>

NextOP ==
    \/ OPAcquire
    \/ \E o \in 0..Len(opPool) : OPRelease(o)

SpecOP == InitOP /\ [][NextOP]_vars

\* ---------------------------------------------------- DependencyManager
ModuleNames == {"a", "b", "c"}

MaxDeps == 2

MaxStack == 4

\* the dependency arrays given to register: names without repetition
DepLists ==
    {deps \in UNION {[1..n -> ModuleNames] : n \in 0..MaxDeps} :
        \A i, j \in DOMAIN deps : i # j => deps[i] # deps[j]}

\* the names in the dependency array of a module; none for an unregistered name
DMDependencies(name) ==
    IF name \in dmModules THEN {dmDeps[name][i] : i \in DOMAIN dmDeps[name]} ELSE {}

RECURSIVE DMClosure(_)
DMClosure(names) ==
    LET more == names \cup UNION {DMDependencies(n) : n \in names}
    IN IF more = names THEN names ELSE DMClosure(more)

\* name and its transitive dependencies
DMReach(name) == DMClosure({name})

DMAcyclic(name) ==
    \A n \in DMReach(name) : n \notin DMClosure(DMDependencies(n))

\* an implementation called before its dependencies are resolved
DMReadyAtOnce(frame, deps) == TRUE

\* dependencies.map has gone through the whole array
DMReady(frame, deps) == frame.next > Len(deps)

InitDM ==
    /\ DMConstructed
    /\ ParkedExcept("DM")

\* register(name, dependencies, implementation), between two calls of require;
\* the implementation of a module is known by the module's name
DMRegister(name, dependencies) ==
    /\ dmPc # "running"
    /\ dmModules' = dmModules \cup {name}
    /\ dmDeps' = [n \in dmModules \cup {name} |->
                     IF n = name THEN dependencies ELSE dmDeps[n]]
    /\ dmPc' = "idle"
    /\ dmRoot' = ""
    /\ dmLog' = <<>>
    /\ dmMissing' = ""
    /\ UNCHANGED <<dmStack, exceptDM>>

\* the outermost require(name) is called
DMRequire(name) ==
    /\ dmPc # "running"
    /\ dmRoot' = name
    /\ dmLog' = <<>>
    /\ IF name \notin dmModules
       THEN /\ dmPc' = "notfound"
            /\ dmMissing' = name
            /\ dmStack' = <<>>
       ELSE /\ dmPc' = "running"
            /\ dmMissing' = ""
            /\ dmStack' = <<[name |-> name, next |-> 1]>>
    /\ UNCHANGED <<dmModules, dmDeps, exceptDM>>

\* one step of the innermost active require: call require for the next
\* dependency, or invoke the implementation and return to the caller. A call
\* deeper than the engine's stack throws a RangeError; every throw unwinds all
\* the calls, none of them has a catch.
DMStep ==
    /\ dmPc = "running"
    /\ LET depth == Len(dmStack)
           frame == dmStack[depth]
           deps == dmDeps[frame.name]
       IN IF DMReady(frame, deps)
          THEN /\ dmLog' = Append(dmLog, frame.name)
               /\ dmMissing' = dmMissing
               /\ IF depth = 1
                  THEN /\ dmPc' = "returned"
                       /\ dmStack' = <<>>
                  ELSE /\ dmPc' = dmPc
                       /\ dmStack' = [SubSeq(dmStack, 1, depth - 1)
                                        EXCEPT ![depth - 1].next = @ + 1]
          ELSE LET dep == deps[frame.next] IN
               /\ dmLog' = dmLog
               /\ IF depth >= MaxStack
                  THEN /\ dmPc' = "overflow"
                       /\ dmMissing' = dmMissing
                       /\ dmStack' = <<>>
                  ELSE IF dep \notin dmModules
                  THEN /\ dmPc' = "notfound"
                       /\ dmMissing' = dep
                       /\ dmStack' = <<>>
                  ELSE /\ dmPc' = dmPc
                       /\ dmMissing' = dmMissing
                       /\ dmStack' = Append(dmStack, [name |-> dep, next |-> 1])
    /\ UNCHANGED <<dmModules, dmDeps, dmRoot, exceptDM>>

NextDM ==
    \/ \E name \in ModuleNames, dependencies \in DepLists : DMRegister(name, dependencies)
    \/ \E name \in ModuleNames : DMRequire(name)
    \/ DMStep

SpecDM == InitDM /\ [][NextDM]_vars

\* a call of require that has begun runs on: JavaScript runs it to completion
SpecDMLive == SpecDM /\ WF_vars(DMStep)

\* C1: with capacity >= 1, after any sequence of get and put calls the cache
\* stores at most `capacity` keys (each key once).
C1_SizeWithinCapacity ==
    /\ Len(cache) <= capacity
    /\ Cardinality(MapKeys(cache)) = Len(cache)

\* C1 witness: a put into a full cache has evicted a key and the cache is full again.
C1_Witness ==
    /\ lruLast.op = "put"
    /\ lruLast.evicted # NoKey
    /\ Len(cache) = capacity

\* C2: the cache behaves like the reference least-recently-used cache: every call
\* returns what the reference returns (the latest value put, or -1 on a miss), the
\* cache holds exactly the reference's keys with the reference's values (so a put
\* evicts the reference's victim, or nothing for a present key, and the other keys
\* keep their values), and the Map's iteration order is the order of latest
\* successful use (so a miss changes neither contents nor recency).
C2_RefinesReferenceLRU ==
    /\ lruLast.ret = refRet
    /\ MapKeys(cache) = RefPresent(refVal)
    /\ \A i \in 1..Len(cache) : cache[i].value = refVal[cache[i].key]
    /\ \A i, j \in 1..Len(cache) :
          i < j => refUsed[cache[i].key] < refUsed[cache[j].key]
    /\ lruLast.op = "put" =>
          /\ refVal[lruLast.key] = lruLast.value
          /\ lruLast.evicted # NoKey => refVal[lruLast.evicted] = Absent

\* C2 witness: with room for two keys, a put evicted a key that is not the
\* one most recently used, and the surviving older key was used after the victim.
C2_Witness ==
    /\ capacity >= 2
    /\ lruLast.op = "put"
    /\ lruLast.evicted # NoKey
    /\ Len(cache) = capacity
    /\ \A i \in 1..Len(cache) : refUsed[cache[i].key] > refUsed[lruLast.evicted]

\* C3: in the count-tracking CircularBuffer with size >= 1, after any sequence of
\* write and read calls 0 <= count <= size, 0 <= readPtr < size, 0 <= writePtr < size.
C3_PointersInRange ==
    /\ cb.size >= 1
    /\ cb.count \in 0..cb.size
    /\ cb.readPtr \in 0..(cb.size - 1)
    /\ cb.writePtr \in 0..(cb.size - 1)
    /\ DOMAIN cb.buffer = 0..(cb.size - 1)

\* C3 witness: a write made into a full buffer, with writePtr wrapped to 0.
C3_Witness ==
    /\ cbOp = "write"
    /\ overflowed
    /\ cb.count = cb.size
    /\ cb.writePtr = 0
    /\ cb.size >= 2

\* C4: as long as no write was made while count = size, a read returns the oldest
\* value written and not yet read, and it returns null, changing no field, exactly
\* when every written value has already been read.
C4_FifoWithoutOverflow ==
    [][(cbOp' = "read" /\ ~overflowed') =>
          IF pending = <<>>
          THEN cbRet' = Null /\ cb' = cb
          ELSE cbRet' = Head(pending) /\ cbRet' # Null /\ cb' # cb
              /\ cb'.count = Len(pending')]_vars

\* C4 witness: without any overflow, a read returned a value while further values
\* are pending across the wrap-around of the buffer.
C4_Witness ==
    /\ cbOp = "read"
    /\ ~overflowed
    /\ cbRet \in Vals
    /\ cb.count > 0
    /\ cb.writePtr <= cb.readPtr
    /\ underflowed

\* C5 (as claimed): for the same size and the same calls the two CircularBuffer
\* classes return the same value from every read, reads with nothing pending
\* included, and have the same readPtr and writePtr.
C5_SameAlgorithm ==
    /\ cbRet = mbRet
    /\ cb.readPtr = mb.readPtr
    /\ cb.writePtr = mb.writePtr

\* C5 (amended): as long as no read was made while the arrays module's count is 0,
\* the two classes return the same value from every read and have the same
\* readPtr and writePtr (and the same buffer contents).
C5_SameUntilEmptyRead ==
    ~underflowed =>
        /\ cbRet = mbRet
        /\ cb.readPtr = mb.readPtr
        /\ cb.writePtr = mb.writePtr
        /\ cb.buffer = mb.buffer

\* C5 witness: no read on an empty buffer so far, and a read returned a value
\* after a write had overwritten an unread slot.
C5_Witness ==
    /\ ~underflowed
    /\ overflowed
    /\ cbOp = "read"
    /\ cbRet \in Vals
    /\ cb.readPtr # cb.writePtr

\* ---- what the claims about the emitters read ----
CurrentListeners ==
    CASE emitter = "EventEmitter" -> eeEvents
      [] emitter = "EventSystem" -> esListeners
      [] OTHER -> meEvents

\* the callbacks of the listeners registered for the event when emit was called
RegisteredCallbacks ==
    IF emitter = "EventSystem"
    THEN [i \in 1..Len(emLast.registered) |-> emLast.registered[i].callback]
    ELSE emLast.registered

\* the callbacks passed to on(e, ...), in the order of the calls
OnCallsFor(e) ==
    LET mine == SelectSeq(onCalls, LAMBDA c : c.event = e)
    IN [i \in 1..Len(mine) |-> mine[i].cb]

TimesCalled(callback) ==
    Cardinality({i \in 1..Len(emLast.calls) : emLast.calls[i].cb = callback})

\* C6: an EventEmitter.emit(event, data) that returns has called every callback
\* registered with on(event, cb), once per registration and in registration order,
\* each with data as its first argument, and has called nothing else (no callback
\* of another event, nothing for an event without registrations).
C6_EmitCallsRegistered ==
    (emitter = "EventEmitter" /\ emLast.op = "emit" /\ emLast.outcome = "returned") =>
        emLast.calls = [i \in 1..Len(OnCallsFor(emLast.event)) |->
                           [cb |-> OnCallsFor(emLast.event)[i], arg |-> emLast.data]]

\* C6 witness: an emit returned after calling one callback twice, for its two
\* registrations, while another callback is registered for the other event only.
C6_Witness ==
    /\ emitter = "EventEmitter"
    /\ emLast.op = "emit"
    /\ emLast.outcome = "returned"
    /\ emLast.calls = <<[cb |-> "spy", arg |-> emLast.data],
                        [cb |-> "spy", arg |-> emLast.data]>>
    /\ \E e \in DOMAIN eeEvents : e # emLast.event /\ eeEvents[e] = <<"spy2">>

\* C7 (as claimed): EventSystem keeps one registration per callback and event, so
\* an emit over listeners registered without `once` calls each callback at most once.
C7_SingleRegistration ==
    (/\ emitter = "EventSystem"
     /\ emLast.op = "emit"
     /\ \A i \in 1..Len(emLast.registered) : ~emLast.registered[i].once) =>
        \A callback \in Callbacks : TimesCalled(callback) <= 1

\* C8: no error isolation. A listener that throws ends emit with that exception;
\* an emit that threw called the throwing listener last, called none of the
\* listeners registered after it, and left the registered listeners as they were
\* when the throwing listener was called.
C8_NoErrorIsolation ==
    emLast.op = "emit" =>
        /\ (emLast.outcome = "threw") <=>
               (\E i \in 1..Len(emLast.calls) : Throws(emLast.calls[i].cb))
        /\ emLast.outcome = "threw" =>
               LET n == Len(emLast.calls)
                   reg == RegisteredCallbacks
                   t == CHOOSE j \in 1..Len(reg) :
                            Throws(reg[j]) /\ \A i \in 1..(j - 1) : ~Throws(reg[i])
               IN /\ n >= 1
                  /\ Throws(emLast.calls[n].cb)
                  /\ \A i \in 1..(n - 1) : ~Throws(emLast.calls[i].cb)
                  /\ n <= t
                  /\ \A i \in 1..n : \E j \in 1..t : reg[j] = emLast.calls[i].cb
                  /\ emitter # "EventSystem" =>
                         \A i \in 1..n : emLast.calls[i].cb = reg[i]
                  /\ CurrentListeners = emLast.atCall
                  /\ emitter # "EventSystem" =>
                         ListenersOf(CurrentListeners, emLast.event) = emLast.registered

\* C8 witness: an EventSystem emit threw after calling an earlier listener, with
\* a further listener registered after the throwing one.
C8_Witness ==
    /\ emitter = "EventSystem"
    /\ emLast.op = "emit"
    /\ emLast.outcome = "threw"
    /\ Len(emLast.calls) = 2
    /\ Len(emLast.registered) = 3
    /\ ~Throws(emLast.registered[3].callback)

\* ---- what the claims about TestRunner read ----
StepNo(step) == CASE step = "before" -> 0 [] step = "body" -> 1 [] step = "after" -> 2

\* the place of a log entry in the order: tests in registration order, then
\* beforeEach, body, afterEach, then start before settlement
Rank(entry) ==
    (entry.test * 3 + StepNo(entry.step)) * 2 + (IF entry.ev = "start" THEN 0 ELSE 1)

\* test number i completes its beforeEach, body and afterEach without a throw
AllComplete(i) ==
    /\ beforeEach \in {NoFn, "ok"}
    /\ tests[i].fn = "ok"
    /\ afterEach \in {NoFn, "ok"}

\* C9: runTests runs the tests strictly one at a time in registration order: the
\* steps of a test start in the order beforeEach, body, afterEach; a step that
\* has started settles (completes or throws) before any other step starts; no step
\* of a later test starts before the steps of the earlier tests have settled; and
\* when runTests returns, every registered test has been run.
C9_SequentialInOrder ==
    /\ Cardinality(inflight) <= 1
    /\ \A i, j \in 1..Len(trLog) : i < j => Rank(trLog[i]) < Rank(trLog[j])
    /\ \A i \in 1..Len(trLog) :
          IF trLog[i].ev = "start"
          THEN i < Len(trLog) =>
                  /\ trLog[i + 1].test = trLog[i].test
                  /\ trLog[i + 1].step = trLog[i].step
                  /\ trLog[i + 1].ev # "start"
          ELSE /\ i > 1
               /\ trLog[i - 1] = [trLog[i] EXCEPT !.ev = "start"]
    /\ IF Len(trLog) > 0 /\ trLog[Len(trLog)].ev = "start"
       THEN inflight = {[test |-> trLog[Len(trLog)].test,
                         step |-> trLog[Len(trLog)].step]}
       ELSE inflight = {}
    /\ trPc = "done" =>
          \A t \in 1..Len(tests) : \E i \in 1..Len(trLog) : trLog[i].test = t

\* C9 witness: runTests returned after running two tests, each with its
\* beforeEach, body and afterEach.
C9_Witness ==
    /\ trPc = "done"
    /\ Len(tests) = 2
    /\ Len(trLog) = 12
    /\ trLog[6] = [test |-> 1, step |-> "after", ev |-> "end"]
    /\ trLog[7] = [test |-> 2, step |-> "before", ev |-> "start"]

\* C10: the results returned by runTests satisfy passed + failed = total = the
\* number of distinct registered names and failures.length = failed; a test counts
\* as passed exactly when its beforeEach, body and afterEach all completed, and
\* otherwise it appears exactly once in failures under its name.
C10_ResultsAddUp ==
    trPc = "done" =>
        /\ results.passed + results.failed = results.total
        /\ results.total = Cardinality(registered)
        /\ Len(results.failures) = results.failed
        /\ results.passed = Cardinality({i \in 1..Len(tests) : AllComplete(i)})
        /\ \A i \in 1..Len(tests) :
              Cardinality({k \in 1..Len(results.failures) :
                              results.failures[k].name = tests[i].name})
                  = IF AllComplete(i) THEN 0 ELSE 1

\* C10 witness: runTests returned with one test passed and one failed, the
\* failure being a throw of the test body after a completed beforeEach.
C10_Witness ==
    /\ trPc = "done"
    /\ results.passed = 1
    /\ results.failed = 1
    /\ beforeEach = "ok"
    /\ afterEach = "ok"
    /\ \E i \in 1..Len(tests) : tests[i].fn = "value"

\* C11: whenever a cleanup function is registered with after(), every test body
\* that has settled, by completing or by throwing, is followed by a call of the
\* cleanup function for that test before anything else is run (or the cleanup
\* call is the very next statement of runTests).
C11_AfterEachAfterEveryBody ==
    afterEach # NoFn =>
        \A i \in 1..Len(trLog) :
            (trLog[i].step = "body" /\ trLog[i].ev # "start") =>
                IF i < Len(trLog)
                THEN trLog[i + 1] = [test |-> trLog[i].test, step |-> "after",
                                     ev |-> "start"]
                ELSE trPc = "running" /\ trIdx = trLog[i].test /\ trStep = "after"

\* C12: at most maxRequests invocations of fn start within any time interval
\* of length timeWindow: counted from any invocation, fewer than timeWindow later
\* there are at most maxRequests invocations, itself included.
C12_RateWithinWindow ==
    \A i \in 1..Len(rlStarts) :
        Cardinality({j \in 1..Len(rlStarts) :
                        /\ rlStarts[j] >= rlStarts[i]
                        /\ rlStarts[j] - rlStarts[i] < rlWindow}) <= rlMax

\* C13: for each clientId at most `limit` calls return true within any time
\* window shorter than `interval`; a call that returns false leaves the stored
\* timestamps of every client unchanged; a call for one clientId leaves what is
\* stored for every other clientId, which is all that decides their outcomes,
\* unchanged; a call that returns true records its own time for its client.
C13_PerClientLimit ==
    /\ \A i \in 1..Len(slGrants) :
          Cardinality({j \in 1..Len(slGrants) :
                          /\ slGrants[j].client = slGrants[i].client
                          /\ slGrants[j].at >= slGrants[i].at
                          /\ slGrants[j].at - slGrants[i].at < slInterval}) <= slLimit
    /\ slLast.op = "call" =>
          /\ ~slLast.ret => slRequests = slLast.before
          /\ \A c \in Clients \ {slLast.client} :
                SLGet(slRequests, c) = SLGet(slLast.before, c)
          /\ slLast.ret =>
                LET stored == SLGet(slRequests, slLast.client)
                IN Len(stored) > 0 /\ stored[Len(stored)] = slLast.at

\* C13 witness: one client was granted `limit` calls and then refused, while the
\* other client holds grants of its own, and an earlier grant has expired.
C13_Witness ==
    /\ slLast.op = "call"
    /\ ~slLast.ret
    /\ slLimit = 2
    /\ \E c \in Clients \ {slLast.client} : Len(SLGet(slRequests, c)) > 0
    /\ Len(slGrants) > Len(SLGet(slRequests, "alice")) + Len(SLGet(slRequests, "bob"))

\* C14: a call made when `threshold` failures are recorded and less than
\* 60000 ms have passed since the last recorded failure throws 'Circuit breaker
\* open' without invoking operation and without changing failures or lastFailure;
\* a call made 60000 ms or more after the last failure resets failures to 0 and
\* invokes operation; below the threshold every call invokes operation.
C14_OpenForOneMinute ==
    brLast.op = "call" =>
        IF brLast.failures >= brThreshold
        THEN IF brLast.at - brLast.lastFailure < 60000
             THEN /\ brLast.open
                  /\ ~brLast.invoked
                  /\ brFailures = brLast.failures
                  /\ brLastFailure = brLast.lastFailure
                  /\ brInflight = brLast.inflight
             ELSE /\ ~brLast.open
                  /\ brLast.reset
                  /\ brLast.invoked
                  /\ brFailures = 0
                  /\ brInflight = brLast.inflight + 1
        ELSE /\ ~brLast.open
             /\ brLast.invoked
             /\ brFailures = brLast.failures

\* C14 witness: with two failures recorded against a threshold of 2, a call made
\* exactly 60000 ms after the last failure has reset the count and invoked
\* operation.
C14_Witness ==
    /\ brLast.op = "call"
    /\ brThreshold = 2
    /\ brLast.failures = 2
    /\ brLast.at - brLast.lastFailure = 60000
    /\ brLast.reset
    /\ brInflight = 1

\* ---- what the claim about the retry loops reads ----
RTAttempts == {i \in 1..Len(rtLog) : rtLog[i].ev = "attempt"}

RTFailures == {i \in 1..Len(rtLog) : rtLog[i].ev = "failure"}

\* C15: each of the three retry loops with maxAttempts n >= 1 invokes the
\* operation sequentially at most n times; it returns the result of the first
\* attempt that succeeds and makes no further attempt; if all n attempts fail it
\* rejects with the error of the n-th attempt; between two consecutive attempts it
\* waits the fixed delay, and it does not wait after the last failed attempt.
C15_RetryAtMostN ==
    /\ Cardinality(RTAttempts) <= rtMax
    /\ \A i \in 1..Len(rtLog) :
          LET entry == rtLog[i]
              last == i = Len(rtLog)
          IN CASE entry.ev = "attempt" ->
                     /\ i = 1 \/ rtLog[i - 1].ev = "wait"
                     /\ IF last THEN rtPc = "operation"
                        ELSE rtLog[i + 1].ev \in {"success", "failure"}
               [] entry.ev = "success" ->
                     /\ last
                     /\ rtPc = "done"
                     /\ rtResult = [state |-> "fulfilled", value |-> entry.value]
               [] entry.ev = "failure" ->
                     IF Cardinality({j \in RTFailures : j <= i}) = rtMax
                     THEN /\ last
                          /\ rtPc = "done"
                          /\ rtResult = [state |-> "rejected", value |-> entry.value]
                     ELSE /\ ~last
                          /\ rtLog[i + 1].ev = "wait"
                          /\ rtLog[i + 1].at = entry.at
               [] entry.ev = "wait" ->
                     /\ entry.due = entry.at + rtDelay
                     /\ IF last THEN rtPc = "timer"
                        ELSE rtLog[i + 1].ev = "attempt" /\ rtLog[i + 1].at >= entry.due
    /\ rtPc = "done" <=> rtResult.state # "pending"
    /\ rtPc = "done" => Len(rtLog) > 0 /\ rtLog[Len(rtLog)].ev \in {"success", "failure"}

\* C15 witness: retry(fn, 3, delay), the loop that counts from 0, has rejected
\* with the error of its third failed attempt after two waits.
C15_Witness ==
    /\ rtImpl = "retry"
    /\ rtMax = 3
    /\ rtPc = "done"
    /\ Cardinality(RTFailures) = 3
    /\ rtResult = [state |-> "rejected", value |-> 2]
    /\ rtLog[2] = [ev |-> "failure", at |-> 0, value |-> 1, due |-> NoTime]

\* C16: fn is invoked only when `delay` has elapsed since the most recent call
\* of the debounced function, and with the arguments of that call; every call
\* cancels the timer of the previous call, so at most one timer is pending, it
\* belongs to the most recent call, and a call is followed by exactly one pending
\* timer or one invocation; calls made before the previous timer ran produce no
\* invocation of their own.
C16_DebounceLastCallOnly ==
    /\ Cardinality(dbTimers) <= 1
    /\ \A t \in dbTimers :
          /\ t.id = Len(dbCalls)
          /\ t.args = dbCalls[t.id].args
          /\ t.due = dbCalls[t.id].at + dbDelay
    /\ \A k \in 1..Len(dbInvoked) :
          LET inv == dbInvoked[k] IN
          /\ inv.call = inv.calls
          /\ inv.args = dbCalls[inv.call].args
          /\ inv.at >= dbCalls[inv.call].at + dbDelay
          /\ \A j \in 1..Len(dbInvoked) : j # k => dbInvoked[j].call # inv.call
    /\ Len(dbCalls) > 0 =>
          Cardinality(dbTimers)
              + Cardinality({k \in 1..Len(dbInvoked) :
                                dbInvoked[k].call = Len(dbCalls)}) = 1

\* C16 witness: a burst of three calls with different arguments has produced
\* exactly one invocation, with the arguments of the third call.
C16_Witness ==
    /\ Len(dbCalls) = 3
    /\ dbCalls[1].args # dbCalls[3].args
    /\ dbTimers = {}
    /\ Len(dbInvoked) = 1
    /\ dbInvoked[1].args = dbCalls[3].args

C18_CancelIsAFlag ==
    \A w \in Wrappers :
        /\ cpSettles[w] <= 1
        /\ cpWrapped[w] # Pending <=> cpSettles[w] = 1
        /\ cpWrapped[w] # Pending <=> cpReaction[w] = "run"
        /\ cpWrapped[w] # Pending => cpPromise[w] # Pending
        /\ cpWrapped[w] # Pending =>
              IF cpSeen[w]
              THEN cpWrapped[w] = [state |-> "rejected", value |-> -6]
              ELSE cpWrapped[w] = cpPromise[w]

\* C18 witness: one wrapper was cancelled before the callback of its fulfilled
\* promise ran and has rejected with 'Cancelled'; the other was cancelled only
\* after it had settled and keeps the rejection of its promise.
C18_Witness ==
    /\ cpPromise[1].state = "fulfilled"
    /\ cpSeen[1]
    /\ cpWrapped[1] = [state |-> "rejected", value |-> Cancelled]
    /\ cpPromise[2] = [state |-> "rejected", value |-> 1]
    /\ cpCancelled[2]
    /\ ~cpSeen[2]
    /\ cpWrapped[2] = cpPromise[2]

\* C19: assertThrows(fn) throws 'Expected function to throw' to its caller when
\* fn returns and returns the thrown error when fn throws; assertRejects(promise)
\* rejects with 'Expected promise to reject' when the promise fulfils and resolves
\* with the rejection reason when it rejects.
C19_AssertionsFail ==
    \A i \in 1..Len(asLog) :
        LET call == asLog[i] IN
        IF call.op = "assertThrows"
        THEN IF call.input.type = "throw"
             THEN call.result = [type |-> "return", value |-> call.input.value]
             ELSE call.result = [type |-> "throw", value |-> ExpectedToThrow]
        ELSE /\ call.input.state = "rejected" =>
                    call.result = [state |-> "fulfilled", value |-> call.input.value]
             /\ call.input.state = "fulfilled" =>
                    call.result = [state |-> "rejected", value |-> ExpectedToReject]

\* ---- what the claim about AsyncQueue reads ----
\* the tasks between their start and their settlement
AQRunning ==
    {aqStarted[i] : i \in 1..Len(aqStarted)}
        \ {aqSettled[i].task : i \in 1..Len(aqSettled)}

\* C20: AsyncQueue runs the tasks one at a time in enqueue order: at most one
\* task is between its start and its settlement, tasks start (and settle) in the
\* order they were enqueued, the tasks not yet started wait in the queue in that
\* order, at most one process() loop is active, and processing is true exactly
\* while a loop is active.
C20_OneTaskAtATime ==
    /\ Cardinality(AQRunning) <= 1
    /\ Cardinality(aqLoops) <= 1
    /\ aqProcessing <=> aqLoops # {}
    /\ AQRunning = {loop.task : loop \in aqLoops}
    /\ \A i \in 1..Len(aqStarted) : aqStarted[i] = i
    /\ \A i \in 1..Len(aqSettled) : aqSettled[i].task = i
    /\ \A i \in 1..Len(aqQueue) : aqQueue[i] = Len(aqStarted) + i
    /\ Len(aqStarted) + Len(aqQueue) = aqEnqueued

\* C20 witness: three tasks were enqueued, the second and third while the first
\* was awaited; the first has settled, the second is running and the third waits.
C20_Witness ==
    /\ aqEnqueued = 3
    /\ Len(aqSettled) = 1
    /\ aqStarted = <<1, 2>>
    /\ aqQueue = <<3>>
    /\ aqProcessing

\* C22: in the count-tracking CircularBuffer the distance from readPtr to
\* writePtr is the number of unread values: (writePtr - readPtr) mod size =
\* count mod size after every sequence of writes and reads, so that readPtr is
\* at the oldest of the values still to be read.
C22_RingDistanceIsCount ==
    (cb.writePtr - cb.readPtr + cb.size) % cb.size = cb.count % cb.size

\* C23: the failure counter of circuitBreaker is cumulative: a call of operation
\* that succeeds changes neither failures nor lastFailure, a call that fails adds
\* one to failures, and failures goes down only to 0 and only in a call made
\* 60000 ms or more after the last failure with the threshold reached.
C23_FailuresCumulative ==
    /\ brLast.op = "return" =>
          brFailures = brLast.failures /\ brLastFailure = brLast.lastFailure
    /\ brLast.op = "throw" =>
          brFailures = brLast.failures + 1 /\ brLastFailure = brLast.at
    /\ (brLast.op # "new" /\ brFailures < brLast.failures) =>
          /\ brLast.op = "call"
          /\ brFailures = 0
          /\ brLast.failures >= brThreshold
          /\ brLast.at - brLast.lastFailure >= 60000

\* C23 witness: with threshold 2, a call is refused as 'Circuit breaker open'
\* although operation has succeeded since the count started at 0.
C23_Witness ==
    /\ brThreshold = 2
    /\ brLast.op = "call"
    /\ brLast.open
    /\ brLast.succeeded
    /\ brFailures = 2

\* C24: runTests never rejects and never stops early: whatever a hook or a test
\* body throws, an Error, another value, null or undefined, the promise of
\* runTests is not rejected, and once it has settled every registered test has
\* been run and counted as passed or failed.
C24_RunTestsNeverRejects ==
    /\ trPc # "rejected"
    /\ trPc \in {"done", "rejected"} =>
          /\ results.passed + results.failed = Len(tests)
          /\ \A t \in 1..Len(tests) : \E i \in 1..Len(trLog) : trLog[i].test = t

\* C25: provided every started task settles, every enqueued task is eventually
\* started and the promise returned by its enqueue call is settled with that
\* task's own result or error; a task that rejects does not keep later tasks from
\* running; and whenever the queue is empty and no task is running, processing
\* is false.
C25_EveryTaskSettles ==
    /\ \A id \in 1..MaxTasks :
          (aqEnqueued >= id) ~>
              (\E i \in 1..Len(aqSettled) : aqSettled[i].task = id /\ aqStarted[id] = id)
    /\ [](\A i \in 1..Len(aqSettled) : aqSettled[i].promise = aqSettled[i].outcome)
    /\ []((aqQueue = <<>> /\ AQRunning = {}) => ~aqProcessing)

\* C25 witness: the first task rejected, the second, enqueued while the first
\* was running, was started after it and fulfilled the promise of its enqueue
\* call, and the queue is idle again.
C25_Witness ==
    /\ Len(aqSettled) = 2
    /\ aqSettled[1].promise.state = "rejected"
    /\ aqSettled[2] = [task |-> 2, outcome |-> [state |-> "fulfilled", value |-> 1],
                       promise |-> [state |-> "fulfilled", value |-> 1]]
    /\ aqQueue = <<>>
    /\ ~aqProcessing

\* ---- what the claims about once-listeners read ----
\* the listeners of a sequence registered with (or without) options.once
WithOnce(ls, once) == SelectSeq(ls, LAMBDA l : l.once = once)

\* C26: every listener registered with once for the event is invoked by the
\* first emit of that event, and by no later one: an EventSystem.emit that
\* returns has called the callback of each once-listener registered at the call,
\* once per registration, and leaves no once-listener registered for the event.
C26_OnceInvokedByFirstEmit ==
    (emitter = "EventSystem" /\ emLast.op = "emit" /\ emLast.outcome = "returned") =>
        /\ \A callback \in Callbacks :
              TimesCalled(callback) >=
                  Len(SelectSeq(WithOnce(emLast.registered, TRUE),
                                LAMBDA l : l.callback = callback))
        /\ WithOnce(ListenersOf(esListeners, emLast.event), TRUE) = <<>>

\* C27: EventSystem.emit removes only once-listeners: the listeners registered
\* without once for the event are the same after the emit as before it, also
\* when their callback was registered with once as well.
C27_EmitKeepsPermanentListeners ==
    (emitter = "EventSystem" /\ emLast.op = "emit") =>
        WithOnce(ListenersOf(esListeners, emLast.event), FALSE)
            = WithOnce(emLast.registered, FALSE)

\* C29: in MemoryEfficientEmitter the events map never holds an event name with
\* an empty listener set; off(event, cb) and the function returned by
\* on(event, cb) have the same effect: cb leaves the listeners of event, the other
\* listeners and events stay, and the event name goes when no listener is left;
\* and an emit calls only callbacks that are registered for the event.
C29_NoEmptyListenerSets ==
    emitter = "MemoryEfficientEmitter" =>
        /\ \A e \in DOMAIN meEvents : meEvents[e] # <<>>
        /\ emLast.op \in {"off", "unsubscribe"} =>
              LET before == emLast.atCall
                  e == emLast.event
                  rest == SelectSeq(ListenersOf(before, e),
                                    LAMBDA x : x # emLast.registered[1])
              IN /\ ListenersOf(meEvents, e) = rest
                 /\ DOMAIN meEvents = IF rest = <<>> THEN DOMAIN before \ {e}
                                      ELSE DOMAIN before
                 /\ \A other \in DOMAIN before \ {e} : meEvents[other] = before[other]
        /\ emLast.op = "emit" =>
              \A i \in 1..Len(emLast.calls) :
                  \E k \in 1..Len(ListenersOf(meEvents, emLast.event)) :
                      meEvents[emLast.event][k] = emLast.calls[i].cb

\* C29 witness: the function returned by on() removed the last callback of an
\* event, whose name left the map, while the other event keeps its listeners.
C29_Witness ==
    /\ emitter = "MemoryEfficientEmitter"
    /\ emLast.op = "unsubscribe"
    /\ Len(ListenersOf(emLast.atCall, emLast.event)) = 1
    /\ emLast.event \notin DOMAIN meEvents
    /\ \E other \in DOMAIN meEvents : Len(meEvents[other]) = 2

\* C21: asyncPool with poolLimit >= 1 bounds concurrency: at no moment are more
\* than poolLimit of the promises returned by iteratorFn unsettled, and the
\* returned promise is fulfilled only when every item's promise is.
C21_AtMostPoolLimitUnsettled ==
    /\ Cardinality({i \in 1..apCount : apState[i] = "pending"}) <= apLimit
    /\ apPc = "fulfilled" => \A i \in 1..apCount : apState[i] = "fulfilled"

\* C28: the object pool never hands one object to two holders: an object
\* returned by acquire was not in use at the call, at most size objects are in
\* use, acquire returns null exactly when all objects are in use, and release
\* of an object makes that object, and no other, available again.
C28_NoObjectHandedOutTwice ==
    LET size == Len(opPool) IN
    /\ Cardinality(opHeld) <= size
    /\ opHeld = {i \in 1..size : opPool[i]}
    /\ opLast.op = "acquire" =>
          /\ (opLast.object = Null) <=> (opLast.held = 1..size)
          /\ opLast.object # Null =>
                /\ opLast.object \notin opLast.held
                /\ opHeld = opLast.held \cup {opLast.object}
    /\ opLast.op = "release" =>
          /\ opHeld = opLast.held \ {opLast.object}
          /\ \A i \in 1..size : i # opLast.object => opPool[i] = opLast.before[i]
          /\ opLast.object \in 1..size => ~opPool[opLast.object]

\* a full pool refused an acquire, one object was released and handed out again
C28_Witness ==
    /\ Len(opPool) = 3
    /\ opImpl = "performance"
    /\ opLast.op = "acquire"
    /\ opLast.object = 2
    /\ opLast.held = {1, 3}
    /\ opHeld = {1, 2, 3}

\* every implementation in the log was invoked after those of its dependencies
DMLogInOrder ==
    \A k \in DOMAIN dmLog :
        \A d \in DMDependencies(dmLog[k]) : \E j \in 1..(k - 1) : dmLog[j] = d

\* what a finished require(dmRoot) has done when it has done as it should
DMResolved ==
    IF DMReach(dmRoot) \subseteq dmModules
    THEN /\ dmPc = "returned"
         /\ dmLog # <<>>
         /\ dmLog[Len(dmLog)] = dmRoot
         /\ \A n \in DMReach(dmRoot) : \E k \in DOMAIN dmLog : dmLog[k] = n
    ELSE /\ dmPc = "notfound"
         /\ dmMissing \in DMReach(dmRoot) \ dmModules

\* C30 (as amended): require(name) on an acyclic dependency graph ends: when name
\* and all its transitive dependencies are registered it returns, having invoked
\* each dependency's implementation before the implementation that depends on
\* it; when one of them is unregistered it throws 'Module <name> not found' for
\* an unregistered one of them. register and require never remove a module.
C30_RequireResolvesAcyclic ==
    /\ (dmPc = "running" /\ DMAcyclic(dmRoot)) ~> (dmPc # "running")
    /\ [](dmPc \in {"returned", "notfound", "overflow"} /\ DMAcyclic(dmRoot)
             => DMResolved)
    /\ [](DMLogInOrder)
    /\ [](dmPc = "notfound" => dmMissing \in DMReach(dmRoot) \ dmModules)
    /\ [][dmModules \subseteq dmModules']_vars

\* a is required with a -> [b, c], b -> [c], c -> []: c is invoked for b and for a
C30_Witness ==
    /\ dmPc = "returned"
    /\ dmRoot = "a"
    /\ dmLog = <<"c", "b", "c", "a">>

\* C30 as stated: a require(name) that ends with name or a transitive dependency
\* unregistered has thrown 'Module <name> not found'
C30_NotFoundWheneverUnregistered ==
    (dmPc \in {"returned", "notfound", "overflow"}
        /\ ~(DMReach(dmRoot) \subseteq dmModules))
    => dmPc = "notfound"

====
